---- MODULE Spec2Model ----
(***************************************************************************)
(* EduWave-Backend: the token-based identity and verification lifecycle    *)
(* of src/controllers/authController.js (register, verify-email, login,    *)
(* resend-verification, refresh, logout, forgot/reset password) over the   *)
(* User collection, with the JWT helpers of src/unnamed/part_000 and the   *)
(* opaque-token helper of src/utils/sendEmail.js.                          *)
(*                                                                         *)
(* Spec      every handler runs to completion before the next request      *)
(*           (requests arrive one after another).                          *)
(* SpecConc  two requests in flight, each handler split at its awaits.     *)
(* SpecUsers the users router of src/README.md behind the middleware of    *)
(*           src/middleware/auth.js, with a seeded administrator.          *)
(* SpecConcSignup  register, verify-email and resend-verification in       *)
(*           flight together, split at their awaits.                       *)
(* SpecSecond  the second controller of authController.js (lines 871 to    *)
(*           1087): its register, login and verifyEmail, one at a time.    *)
(* SpecConcForgot  forgot-password requests in flight together, split at   *)
(*           their awaits, next to reset-password.                         *)
(* SpecProgress  updateProgress of src/models/CourseProgress.js on one     *)
(*           CourseProgress document.                                      *)
(***************************************************************************)
EXTENDS Integers, Sequences, FiniteSets, TLC

VARIABLES users, now, ticks, nextToken, nextId, issued, consumedVerification, consumedReset,
          everVerified, requests, courseProgress

vars == <<users, now, ticks, nextToken, nextId, issued, consumedVerification, consumedReset,
          everVerified, requests, courseProgress>>

-----------------------------------------------------------------------------
(* Bounds of the model *)

\* opaque (verification / reset) tokens ever generated
MaxTokens == 3
\* clock advances
MaxTicks == 1
\* cap on the login-streak counter
MaxStreak == 2

\* user documents ever created
MaxIds == 3

-----------------------------------------------------------------------------
(* Time: Date.now() in milliseconds *)

OneSecond == 1000
OneHour == 60 * 60 * 1000
OneDay == 24 * 60 * 60 * 1000
SevenDays == 7 * 24 * 60 * 60 * 1000

\* the clock when the first request arrives
StartTime == OneDay

\* the amounts by which the clock advances between two steps
Jumps == {OneSecond, OneHour, OneDay, SevenDays}

\* emailVerificationExpire: Date.now() + 24 * 60 * 60 * 1000
VerificationExpire == 24 * 60 * 60 * 1000
\* passwordResetExpire: Date.now() + 60 * 60 * 1000
PasswordResetExpire == 60 * 60 * 1000
\* JWT_ACCESS_EXPIRE || '15m', in seconds
AccessExpire == 15 * 60
\* JWT_REFRESH_EXPIRE || '7d', in seconds
RefreshExpire == 7 * 24 * 60 * 60
\* hoursSinceLastLogin <= 24
StreakHours == 24

-----------------------------------------------------------------------------
(* Inputs *)

\* the e-mail addresses of the model; only the first ever registers
Emails == {"a@x.io", "b@x.io"}
RegisterEmails == {"a@x.io", ""}
\* what a client may send as email ("": the field is missing)
EmailInputs == Emails \cup {"A@X.IO", ""}
\* what a client may send as password ("": missing, "abc": shorter than 6)
Passwords == {"secret1", "secret2"}
RegisterPasswords == {"secret1"}
ResetPasswords == {"secret2", "abc"}
RoleInputs == {"", "user", "admin"}

\* String.prototype.toLowerCase on the e-mail inputs
toLowerCase(e) == IF e = "A@X.IO" THEN "a@x.io" ELSE e

-----------------------------------------------------------------------------
(* Token Generator *)

\* crypto.createHash('sha256').update(token).digest('hex'): injective on the
\* tokens of the model and never equal to a plaintext token
HashOffset == 100
sha256(token) == HashOffset + token

\* fault of generateVerificationToken: the plaintext returned as the hash
generateVerificationTokenPlain(n) == [verificationToken |-> n, hashedToken |-> n]

\* the n-th value of crypto.randomBytes(32).toString('hex'), with its hash
generateVerificationToken(n) == [verificationToken |-> n, hashedToken |-> sha256(n)]

AccessSecret == "your-access-secret-key"
RefreshSecret == "your-refresh-secret-key"

\* no token (undefined / absent from the request or the document)
NoToken == [secret |-> "", id |-> 0, iat |-> 0, exp |-> 0]
\* a string that is no token signed by this server
ForgedToken == [secret |-> "forged", id |-> 0, iat |-> 0, exp |-> 0]

\* jwt.sign({id}, secret, {expiresIn}): iat is the clock in whole seconds, the
\* signature is a function of secret and payload
jwtSign(id, secret, expiresIn, t) ==
  [secret |-> secret, id |-> id, iat |-> t \div OneSecond, exp |-> (t \div OneSecond) + expiresIn]

generateAccessToken(userId, t) == jwtSign(userId, AccessSecret, AccessExpire, t)
generateRefreshToken(userId, t) == jwtSign(userId, RefreshSecret, RefreshExpire, t)
generateTokens(userId, t) ==
  [accessToken |-> generateAccessToken(userId, t), refreshToken |-> generateRefreshToken(userId, t)]

\* fault of jwtVerify: the signature not checked against the secret
jwtVerifyAnySecret(token, secret, t) ==
  IF token.secret \notin {AccessSecret, RefreshSecret} THEN "invalid"
  ELSE IF (t \div OneSecond) >= token.exp THEN "expired"
  ELSE "ok"

\* jwt.verify(token, secret) at clock t: "ok", "expired" (TokenExpiredError) or
\* "invalid" (JsonWebTokenError)
jwtVerify(token, secret, t) ==
  IF token.secret # secret THEN "invalid"
  ELSE IF (t \div OneSecond) >= token.exp THEN "expired"
  ELSE "ok"

-----------------------------------------------------------------------------
(* Credential Store: the User document *)

\* bcrypt hash of a password (pre-save hook of the User model)
hashPassword(p) == "bcrypt$" \o p

\* the document of an e-mail that has no account; 0 / "" / NoToken stand for
\* undefined fields
NoUser ==
  [id |-> 0, password |-> "", role |-> "", emailVerified |-> FALSE,
   emailVerificationToken |-> 0, emailVerificationExpire |-> 0,
   passwordResetToken |-> 0, passwordResetExpire |-> 0,
   refreshToken |-> NoToken, loginStreak |-> 0, lastLoginDate |-> 0]

\* user.matchPassword(enteredPassword)
matchPassword(user, entered) == hashPassword(entered) = user.password

\* User.findById(id): the e-mail key of the document, "" when there is none
findById(id) ==
  IF id # 0 /\ \E e \in Emails : users[e].id = id
  THEN CHOOSE e \in Emails : users[e].id = id
  ELSE ""

\* User.findOne({emailVerificationToken: hashedToken})
findByVerificationToken(hashedToken) ==
  IF \E e \in Emails : users[e].id # 0 /\ users[e].emailVerificationToken = hashedToken
  THEN CHOOSE e \in Emails : users[e].id # 0 /\ users[e].emailVerificationToken = hashedToken
  ELSE ""

\* User.findOne({emailVerificationToken: hashedToken, emailVerificationExpire: {$gt: Date.now()}})
findByUnexpiredVerificationToken(hashedToken, t) ==
  IF \E e \in Emails : /\ users[e].id # 0
                       /\ users[e].emailVerificationToken = hashedToken
                       /\ users[e].emailVerificationExpire > t
  THEN CHOOSE e \in Emails : /\ users[e].id # 0
                             /\ users[e].emailVerificationToken = hashedToken
                             /\ users[e].emailVerificationExpire > t
  ELSE ""

\* User.findOne({passwordResetToken: hashedToken, passwordResetExpire: {$gt: Date.now()}})
findByResetToken(hashedToken, t) ==
  IF \E e \in Emails : /\ users[e].id # 0
                       /\ users[e].passwordResetToken = hashedToken
                       /\ users[e].passwordResetExpire > t
  THEN CHOOSE e \in Emails : /\ users[e].id # 0
                             /\ users[e].passwordResetToken = hashedToken
                             /\ users[e].passwordResetExpire > t
  ELSE ""

\* document.save(): Mongoose writes the paths whose value was changed on the
\* loaded copy (and the paths in always, which are marked modified by the
\* assignment itself) onto the stored document
saveDocument(stored, loaded, changed, always) ==
  [f \in DOMAIN stored |->
     IF f \in always \/ changed[f] # loaded[f] THEN changed[f] ELSE stored[f]]

-----------------------------------------------------------------------------
(* Course Progress: the CourseProgress document of one user and course *)

\* lessons of a course
MaxLessons == 3

\* a new document: the defaults of the schema (completedAt 0: undefined)
NewCourseProgress ==
  [progress |-> 0, completedLessons |-> <<>>, completedAt |-> 0, lastAccessedAt |-> StartTime]

\* Math.round(n / d) for n >= 0 and d > 0: halves round up.  The code rounds
\* the double (c / t) * 100, which is this value for every c <= t < 40.
round(n, d) == (2 * n + d) \div (2 * d)

\* updateProgress: the assignments on the document, at clock t
updateProgress(this, completedLessonsCount, totalLessons, t) ==
  LET progress == IF totalLessons > 0 THEN round(100 * completedLessonsCount, totalLessons)
                  ELSE 0
  IN [completedLessons |-> [i \in 1 .. completedLessonsCount |-> i - 1],
      progress |-> progress,
      lastAccessedAt |-> t,
      completedAt |-> IF progress = 100 /\ this.completedAt = 0 THEN t
                      ELSE this.completedAt]

-----------------------------------------------------------------------------
(* Requests and responses *)

\* what a handler does with a request: the response it sends (status, message,
\* the token pair in data), the User collection it leaves, the opaque token it
\* generated (0: none) and whether the e-mail carrying it was dispatched
Outcome(status, message, collection) ==
  [status |-> status, message |-> message, users |-> collection,
   accessToken |-> NoToken, refreshToken |-> NoToken, token |-> 0, mail |-> ""]

\* res.status(status).json({success, message}) with nothing written
Reply(check) == Outcome(check.status, check.message, users)

MsgFieldsRequired == "Please provide all required fields"
MsgPasswordsDoNotMatch == "Passwords do not match"
MsgUserExists == "User already exists with this email"
MsgNoRoleAssignment == "You cannot assign roles during registration. All users register with the default \"user\" role."
MsgRegistered == "Registration successful! Please check your email to verify your account."
MsgEmailPasswordRequired == "Please provide email and password"
MsgInvalidCredentials == "Invalid credentials"
MsgVerifyFirst == "Please verify your email before logging in"
MsgLoginSuccessful == "Login successful"
MsgServerError == "Server error during login"
MsgTokenRequired == "Verification token is required"
MsgVerificationPage == "<html>verification page</html>"
MsgInvalidVerificationToken == "Invalid verification token. The token may be incorrect or already used."
MsgVerificationExpired == "Verification token has expired. Please request a new verification email."
MsgAlreadyVerified == "Email is already verified"
MsgEmailVerified == "Email verified successfully"
MsgInvalidOrExpiredVerification == "Invalid or expired verification token"
MsgEmailRequired == "Email is required"
MsgIfAccountVerification == "If an account exists with this email, a verification email has been sent."
MsgVerificationSent == "Verification email sent successfully. Please check your email."
MsgVerificationSendFailed == "Failed to send verification email. Please try again later."
MsgRefreshRequired == "Refresh token is required"
MsgInvalidOrExpiredRefresh == "Invalid or expired refresh token"
MsgInvalidRefresh == "Invalid refresh token"
MsgRefreshed == ""
MsgNotAuthorized == "Not authorized to access this route"
MsgUserNotFound == "User not found"
MsgTokenExpired == "Token expired. Please refresh your session."
MsgLoggedOut == "Logged out successfully"
MsgIfAccountReset == "If an account exists with this email, a password reset link has been sent."
MsgResetSendFailed == "Failed to send password reset email. Please try again later."
MsgResetFieldsRequired == "Please provide token, password, and password confirmation"
MsgPasswordTooShort == "Password must be at least 6 characters"
MsgInvalidOrExpiredReset == "Invalid or expired password reset token"
MsgPasswordReset == "Password reset successfully"

-----------------------------------------------------------------------------
(* Identity Lifecycle Service: what each handler decides on the document it *)
(* loaded.  A check yields the early return of the handler, or Continue.    *)

Continue == [status |-> 0, message |-> ""]
Return(status, message) == [status |-> status, message |-> message]

\* the document loaded for a key ("" when findOne / findById found nothing)
Document(key) == IF key = "" THEN NoUser ELSE users[key]

\* fault of registerCheck: the existing user not looked at
registerCheckNoDuplicate(email, password, passwordConfirm, role, existingUser) ==
  IF email = "" \/ password = "" \/ passwordConfirm = "" THEN Return(400, MsgFieldsRequired)
  ELSE IF password # passwordConfirm THEN Return(400, MsgPasswordsDoNotMatch)
  ELSE IF role # "" /\ role # "user" THEN Return(403, MsgNoRoleAssignment)
  ELSE Continue

\* register, up to the role check
registerCheck(email, password, passwordConfirm, role, existingUser) ==
  IF email = "" \/ password = "" \/ passwordConfirm = "" THEN Return(400, MsgFieldsRequired)
  ELSE IF password # passwordConfirm THEN Return(400, MsgPasswordsDoNotMatch)
  ELSE IF existingUser.id # 0 THEN Return(400, MsgUserExists)
  ELSE IF role # "" /\ role # "user" THEN Return(403, MsgNoRoleAssignment)
  ELSE Continue

\* User.create({..., role: 'user', emailVerificationToken, emailVerificationExpire})
createUser(id, password, hashedToken, t) ==
  [NoUser EXCEPT !.id = id, !.password = hashPassword(password), !.role = "user",
                 !.emailVerificationToken = hashedToken,
                 !.emailVerificationExpire = t + VerificationExpire]

\* faults of loginCheck: the emailVerified gate left out; an absent user
\* answered with 404 "User not found"
loginCheckNoVerifiedGate(email, password, user) ==
  IF email = "" \/ password = "" THEN Return(400, MsgEmailPasswordRequired)
  ELSE IF user.id = 0 THEN Return(401, MsgInvalidCredentials)
  ELSE IF ~matchPassword(user, password) THEN Return(401, MsgInvalidCredentials)
  ELSE Continue

loginCheckUserNotFound(email, password, user) ==
  IF email = "" \/ password = "" THEN Return(400, MsgEmailPasswordRequired)
  ELSE IF user.id = 0 THEN Return(404, MsgUserNotFound)
  ELSE IF ~user.emailVerified THEN Return(403, MsgVerifyFirst)
  ELSE IF ~matchPassword(user, password) THEN Return(401, MsgInvalidCredentials)
  ELSE Continue

\* login, up to the password check
loginCheck(email, password, user) ==
  IF email = "" \/ password = "" THEN Return(400, MsgEmailPasswordRequired)
  ELSE IF user.id = 0 THEN Return(401, MsgInvalidCredentials)
  ELSE IF ~user.emailVerified THEN Return(403, MsgVerifyFirst)
  ELSE IF ~matchPassword(user, password) THEN Return(401, MsgInvalidCredentials)
  ELSE Continue

\* fault of loginStreak: a login exactly 24 hours after the last resets
loginStreakBefore24(user, t) ==
  [user EXCEPT
     !.loginStreak = IF user.lastLoginDate = 0 THEN 1
                     ELSE IF t - user.lastLoginDate < StreakHours * OneHour
                          THEN user.loginStreak + 1
                          ELSE 1,
     !.lastLoginDate = t]

\* login: the streak update on the loaded document, at clock t
loginStreak(user, t) ==
  [user EXCEPT
     !.loginStreak = IF user.lastLoginDate = 0 THEN 1
                     ELSE IF t - user.lastLoginDate <= StreakHours * OneHour
                          THEN user.loginStreak + 1
                          ELSE 1,
     !.lastLoginDate = t]

\* verifyEmail: the checks on the document found by the hashed token
verifyEmailCheck(token, user, t) ==
  IF token = 0 THEN Return(400, MsgTokenRequired)
  ELSE IF user.id = 0 THEN Return(400, MsgInvalidVerificationToken)
  ELSE IF user.emailVerificationExpire # 0 /\ user.emailVerificationExpire < t
       THEN Return(400, MsgVerificationExpired)
  ELSE IF user.emailVerified THEN Return(200, MsgAlreadyVerified)
  ELSE Continue

\* fault of markVerified: the verification token left on the document
markVerifiedKeepToken(user) == [user EXCEPT !.emailVerified = TRUE]

\* verifyEmail: the update of the document
markVerified(user) ==
  [user EXCEPT !.emailVerified = TRUE, !.emailVerificationToken = 0,
               !.emailVerificationExpire = 0]

\* resendVerification, up to the already-verified check
resendCheck(email, user) ==
  IF email = "" THEN Return(400, MsgEmailRequired)
  ELSE IF user.id = 0 THEN Return(200, MsgIfAccountVerification)
  ELSE IF user.emailVerified THEN Return(400, MsgAlreadyVerified)
  ELSE Continue

\* fault of rotateVerification: the expiry extended, the stored hash kept
rotateVerificationKeepHash(user, hashedToken, t) ==
  [user EXCEPT !.emailVerificationExpire = t + VerificationExpire]

\* resendVerification: the new token on the document
rotateVerification(user, hashedToken, t) ==
  [user EXCEPT !.emailVerificationToken = hashedToken,
               !.emailVerificationExpire = t + VerificationExpire]

\* fault of refreshVerify: the expiry of the presented token not checked
refreshVerifyIgnoresExpiry(refreshToken, t) ==
  IF refreshToken = NoToken THEN Return(400, MsgRefreshRequired)
  ELSE IF jwtVerify(refreshToken, RefreshSecret, t) = "invalid"
       THEN Return(401, MsgInvalidOrExpiredRefresh)
  ELSE Continue

\* refreshToken: presence and jwt.verify of the presented token
refreshVerify(refreshToken, t) ==
  IF refreshToken = NoToken THEN Return(400, MsgRefreshRequired)
  ELSE IF jwtVerify(refreshToken, RefreshSecret, t) # "ok"
       THEN Return(401, MsgInvalidOrExpiredRefresh)
  ELSE Continue

\* refreshToken: the presented token against the loaded document
refreshMatch(refreshToken, user) ==
  IF user.id = 0 \/ user.refreshToken # refreshToken THEN Return(401, MsgInvalidRefresh)
  ELSE Continue

\* fault of forgotCheck: an absent user answered with 404 "User not found"
forgotCheckUserNotFound(email, user) ==
  IF email = "" THEN Return(400, MsgEmailRequired)
  ELSE IF user.id = 0 THEN Return(404, MsgUserNotFound)
  ELSE Continue

\* forgotPassword, up to the lookup
forgotCheck(email, user) ==
  IF email = "" THEN Return(400, MsgEmailRequired)
  ELSE IF user.id = 0 THEN Return(200, MsgIfAccountReset)
  ELSE Continue

\* fault of setReset: a pending reset hash is kept, only its expiry renewed
setResetKeepHash(user, hashedToken, t) ==
  [user EXCEPT !.passwordResetToken = IF @ = 0 THEN hashedToken ELSE @,
               !.passwordResetExpire = t + PasswordResetExpire]

\* forgotPassword: the reset token on the document
setReset(user, hashedToken, t) ==
  [user EXCEPT !.passwordResetToken = hashedToken,
               !.passwordResetExpire = t + PasswordResetExpire]

\* forgotPassword (dispatch failed) and resetPassword: the reset fields cleared
clearReset(user) == [user EXCEPT !.passwordResetToken = 0, !.passwordResetExpire = 0]

\* password.length of the password inputs
Length(password) == IF password = "abc" THEN 3 ELSE IF password = "" THEN 0 ELSE 7

MinPasswordLength == 6

\* fault of resetValidate: no minimum length
resetValidateAnyLength(token, password, passwordConfirm) ==
  IF token = 0 \/ password = "" \/ passwordConfirm = "" THEN Return(400, MsgResetFieldsRequired)
  ELSE IF password # passwordConfirm THEN Return(400, MsgPasswordsDoNotMatch)
  ELSE Continue

\* resetPassword: the checks before the lookup
resetValidate(token, password, passwordConfirm) ==
  IF token = 0 \/ password = "" \/ passwordConfirm = "" THEN Return(400, MsgResetFieldsRequired)
  ELSE IF password # passwordConfirm THEN Return(400, MsgPasswordsDoNotMatch)
  ELSE IF Length(password) < MinPasswordLength THEN Return(400, MsgPasswordTooShort)
  ELSE Continue

\* fault of setPassword: the reset token left on the document
setPasswordKeepToken(user, password) == [user EXCEPT !.password = hashPassword(password)]

\* fault of setPassword: the stored refresh token cleared with the reset
setPasswordRevokesSession(user, password) ==
  [clearReset(user) EXCEPT !.password = hashPassword(password), !.refreshToken = NoToken]

\* resetPassword: the update of the document
setPassword(user, password) == [clearReset(user) EXCEPT !.password = hashPassword(password)]

\* protect: the bearer token of the request, verified with the access secret
\* and resolved to a stored user
protect(token, t) ==
  IF token = NoToken THEN Return(401, MsgNotAuthorized)
  ELSE IF jwtVerify(token, AccessSecret, t) = "expired" THEN Return(401, MsgTokenExpired)
  ELSE IF jwtVerify(token, AccessSecret, t) = "invalid" THEN Return(401, MsgNotAuthorized)
  ELSE IF findById(token.id) = "" THEN Return(401, MsgUserNotFound)
  ELSE Continue

-----------------------------------------------------------------------------
(* Access Control Middleware: what a middleware does with a request: the    *)
(* response it sends (status 0: none), how often it calls next(), and the   *)
(* key of the document it leaves in req.user ("": undefined or null)        *)

Rejected(status, message) == [status |-> status, message |-> message, next |-> 0, user |-> ""]
Passed(user) == [status |-> 0, message |-> "", next |-> 1, user |-> user]

\* fault of protect: next() called when the user is not found
protectRequestNoUserCheck(token, t) ==
  IF token = NoToken THEN Rejected(401, MsgNotAuthorized)
  ELSE IF jwtVerify(token, AccessSecret, t) = "expired" THEN Rejected(401, MsgTokenExpired)
  ELSE IF jwtVerify(token, AccessSecret, t) = "invalid" THEN Rejected(401, MsgNotAuthorized)
  ELSE Passed(findById(token.id))

\* fault of protect: a user with no stored refresh token is refused
protectRequestChecksSession(token, t) ==
  IF token = NoToken THEN Rejected(401, MsgNotAuthorized)
  ELSE IF jwtVerify(token, AccessSecret, t) = "expired" THEN Rejected(401, MsgTokenExpired)
  ELSE IF jwtVerify(token, AccessSecret, t) = "invalid" THEN Rejected(401, MsgNotAuthorized)
  ELSE IF findById(token.id) = "" THEN Rejected(401, MsgUserNotFound)
  ELSE IF users[findById(token.id)].refreshToken = NoToken
  THEN Rejected(401, MsgNotAuthorized)
  ELSE Passed(findById(token.id))

\* protect as a middleware of a route
protectRequest(token, t) ==
  IF token = NoToken THEN Rejected(401, MsgNotAuthorized)
  ELSE IF jwtVerify(token, AccessSecret, t) = "expired" THEN Rejected(401, MsgTokenExpired)
  ELSE IF jwtVerify(token, AccessSecret, t) = "invalid" THEN Rejected(401, MsgNotAuthorized)
  ELSE IF findById(token.id) = "" THEN Rejected(401, MsgUserNotFound)
  ELSE Passed(findById(token.id))

\* fault of optionalAuth: a token that fails jwt.verify answered with 401
optionalAuthRejects(token, t) ==
  IF token = NoToken THEN Passed("")
  ELSE IF jwtVerify(token, AccessSecret, t) # "ok" THEN Rejected(401, MsgNotAuthorized)
  ELSE Passed(findById(token.id))

optionalAuth(token, t) ==
  IF token = NoToken THEN Passed("")
  ELSE IF jwtVerify(token, AccessSecret, t) # "ok" THEN Passed("")
  ELSE Passed(findById(token.id))

\* roles.join(', ')
RECURSIVE join(_)
join(roles) ==
  IF roles = <<>> THEN ""
  ELSE IF Len(roles) = 1 THEN roles[1]
  ELSE roles[1] \o ", " \o join(Tail(roles))

MsgRoleNotAuthorized(role, roles) ==
  "User role '" \o role \o "' is not authorized to access this route. Required roles: "
    \o join(roles)

\* fault of authorize: every request with req.user set let through
authorizeAnyRole(roles, user) ==
  IF user = "" THEN Rejected(401, MsgNotAuthorized)
  ELSE Passed(user)

\* authorize(...roles) on a request whose req.user is the document of key user
authorize(roles, user) ==
  IF user = "" THEN Rejected(401, MsgNotAuthorized)
  ELSE IF \A i \in 1 .. Len(roles) : roles[i] # users[user].role
       THEN Rejected(403, MsgRoleNotAuthorized(users[user].role, roles))
  ELSE Passed(user)

\* a route's chain protect, authorize(...roles): authorize runs when protect
\* called next()
protectAuthorize(token, roles, t) ==
  IF protectRequest(token, t).next = 0 THEN protectRequest(token, t)
  ELSE authorize(roles, protectRequest(token, t).user)

-----------------------------------------------------------------------------
(* The handlers: the outcome of each on the current collection and clock *)

TokenInputs == 0 .. (MaxTokens + 1)

\* the access token issued together with a refresh token
AccessOf(r) == [r EXCEPT !.secret = AccessSecret, !.exp = r.iat + AccessExpire]

\* what a client may present as a JWT: nothing, a forged string, or a token
\* this server issued
JwtInputs == {NoToken, ForgedToken} \cup issued \cup {AccessOf(r) : r \in issued}

\* the e-mail key a lower-cased e-mail input resolves to
KeyOf(email) == IF toLowerCase(email) \in Emails THEN toLowerCase(email) ELSE ""

\* users with the document of key replaced by what save() leaves
Saved(key, loaded, changed, always) ==
  [users EXCEPT ![key] = saveDocument(users[key], loaded, changed, always)]

register(email, password, passwordConfirm, role, mailOk) ==
  LET check == registerCheck(email, password, passwordConfirm, role, Document(email))
      tok == generateVerificationToken(nextToken)
      created == [users EXCEPT ![email] = createUser(nextId, password, tok.hashedToken, now)]
  IN IF check # Continue THEN Reply(check)
     ELSE [Outcome(201, MsgRegistered, created) EXCEPT
             !.token = tok.verificationToken,
             !.mail = IF mailOk THEN "sent" ELSE "failed"]

\* the register of the second controller of authController.js: no role in
\* the body, and the created document deleted when the dispatch fails
register2(email, password, passwordConfirm, mailOk) ==
  LET check == registerCheck(email, password, passwordConfirm, "", Document(email))
      tok == generateVerificationToken(nextToken)
      created == [users EXCEPT ![email] = createUser(nextId, password, tok.hashedToken, now)]
  IN IF check # Continue THEN Reply(check)
     ELSE IF mailOk
     THEN [Outcome(201, MsgRegistered, created) EXCEPT
             !.token = tok.verificationToken, !.mail = "sent"]
     ELSE [Outcome(500, "Registration failed. Could not send verification email.",
                   [created EXCEPT ![email] = NoUser]) EXCEPT
             !.token = tok.verificationToken, !.mail = "failed"]

\* fault of login: lastLoginDate written when the password does not match
loginStampsFailure(email, password, badgeOk) ==
  LET user == Document(email)
      check == loginCheck(email, password, user)
      streaked == loginStreak(user, now)
      tokens == generateTokens(user.id, now)
      changed == [streaked EXCEPT !.refreshToken = tokens.refreshToken]
  IN IF check # Continue /\ check.status = 401 /\ user.id # 0
     THEN Outcome(401, check.message,
                  Saved(email, user, [user EXCEPT !.lastLoginDate = now], {}))
     ELSE IF check # Continue THEN Reply(check)
     ELSE IF ~badgeOk THEN Reply(Return(500, MsgServerError))
     ELSE [Outcome(200, MsgLoginSuccessful, Saved(email, user, changed, {})) EXCEPT
             !.accessToken = tokens.accessToken, !.refreshToken = tokens.refreshToken]

\* fault of login: the streak and lastLoginDate saved before the badge check
loginSavesBeforeBadge(email, password, badgeOk) ==
  LET user == Document(email)
      check == loginCheck(email, password, user)
      streaked == loginStreak(user, now)
      tokens == generateTokens(user.id, now)
      changed == [streaked EXCEPT !.refreshToken = tokens.refreshToken]
  IN IF check # Continue THEN Reply(check)
     ELSE IF ~badgeOk
     THEN Outcome(500, MsgServerError, Saved(email, user, streaked, {}))
     ELSE [Outcome(200, MsgLoginSuccessful, Saved(email, user, changed, {})) EXCEPT
             !.accessToken = tokens.accessToken, !.refreshToken = tokens.refreshToken]

login(email, password, badgeOk) ==
  LET user == Document(email)
      check == loginCheck(email, password, user)
      streaked == loginStreak(user, now)
      tokens == generateTokens(user.id, now)
      changed == [streaked EXCEPT !.refreshToken = tokens.refreshToken]
  IN IF check # Continue THEN Reply(check)
     ELSE IF ~badgeOk THEN Reply(Return(500, MsgServerError))
     ELSE [Outcome(200, MsgLoginSuccessful, Saved(email, user, changed, {})) EXCEPT
             !.accessToken = tokens.accessToken, !.refreshToken = tokens.refreshToken]

\* the login of the second controller: no streak and no badge check
login2(email, password) ==
  LET user == Document(email)
      check == loginCheck(email, password, user)
      tokens == generateTokens(user.id, now)
      changed == [user EXCEPT !.refreshToken = tokens.refreshToken]
  IN IF check # Continue THEN Reply(check)
     ELSE [Outcome(200, MsgLoginSuccessful, Saved(email, user, changed, {})) EXCEPT
             !.accessToken = tokens.accessToken, !.refreshToken = tokens.refreshToken]

\* fault of verifyEmail: the browser request verifies as the API request does
verifyEmailAutoVerify(token, acceptsHtml) ==
  LET key == findByVerificationToken(sha256(token))
      user == Document(key)
      check == verifyEmailCheck(token, user, now)
  IN IF acceptsHtml /\ check # Continue
     THEN Reply(Return(IF token = 0 THEN 400 ELSE 200, MsgVerificationPage))
     ELSE IF check # Continue THEN Reply(check)
     ELSE Outcome(200, IF acceptsHtml THEN MsgVerificationPage ELSE MsgEmailVerified,
                  Saved(key, user, markVerified(user), {}))

verifyEmail(token, acceptsHtml) ==
  LET key == findByVerificationToken(sha256(token))
      user == Document(key)
      check == verifyEmailCheck(token, user, now)
  IN IF acceptsHtml
     THEN Reply(Return(IF token = 0 THEN 400 ELSE 200, MsgVerificationPage))
     ELSE IF check # Continue THEN Reply(check)
     ELSE Outcome(200, MsgEmailVerified, Saved(key, user, markVerified(user), {}))

\* the verifyEmail of the second controller of authController.js
verifyEmail2(token) ==
  LET key == findByUnexpiredVerificationToken(sha256(token), now)
      user == Document(key)
  IN IF key = "" THEN Reply(Return(400, MsgInvalidOrExpiredVerification))
     ELSE Outcome(200, MsgEmailVerified, Saved(key, user, markVerified(user), {}))

resendVerification(email, mailOk) ==
  LET key == KeyOf(email)
      user == Document(key)
      check == resendCheck(email, user)
      tok == generateVerificationToken(nextToken)
      rotated == Saved(key, user, rotateVerification(user, tok.hashedToken, now), {})
  IN IF check # Continue THEN Reply(check)
     ELSE IF mailOk
     THEN [Outcome(200, MsgVerificationSent, rotated) EXCEPT
             !.token = tok.verificationToken, !.mail = "sent"]
     ELSE [Outcome(500, MsgVerificationSendFailed, rotated) EXCEPT
             !.token = tok.verificationToken, !.mail = "failed"]

refreshToken(presented) ==
  LET verify == refreshVerify(presented, now)
      key == findById(presented.id)
      user == Document(key)
      match == refreshMatch(presented, user)
      tokens == generateTokens(user.id, now)
      changed == [user EXCEPT !.refreshToken = tokens.refreshToken]
  IN IF verify # Continue THEN Reply(verify)
     ELSE IF match # Continue THEN Reply(match)
     ELSE [Outcome(200, MsgRefreshed, Saved(key, user, changed, {})) EXCEPT
             !.accessToken = tokens.accessToken, !.refreshToken = tokens.refreshToken]

\* fault of logout: the refresh token left on the document
logoutKeepToken(accessToken) ==
  LET auth == protect(accessToken, now)
  IN IF auth # Continue THEN Reply(auth)
     ELSE Outcome(200, MsgLoggedOut, users)

\* router: protect, then logout
logout(accessToken) ==
  LET auth == protect(accessToken, now)
      key == findById(accessToken.id)
      user == Document(key)
      changed == [user EXCEPT !.refreshToken = NoToken]
  IN IF auth # Continue THEN Reply(auth)
     ELSE Outcome(200, MsgLoggedOut, Saved(key, user, changed, {}))

\* fault of forgotPassword: no rollback when the dispatch fails
forgotPasswordNoRollback(email, mailOk) ==
  LET key == KeyOf(email)
      user == Document(key)
      check == forgotCheck(email, user)
      resetToken == nextToken
      stored == saveDocument(users[key], user, setReset(user, sha256(resetToken), now), {})
  IN IF check # Continue THEN Reply(check)
     ELSE IF mailOk
     THEN [Outcome(200, MsgIfAccountReset, [users EXCEPT ![key] = stored]) EXCEPT
             !.token = resetToken, !.mail = "sent"]
     ELSE [Outcome(500, MsgResetSendFailed, [users EXCEPT ![key] = stored]) EXCEPT
             !.token = resetToken, !.mail = "failed"]

forgotPassword(email, mailOk) ==
  LET key == KeyOf(email)
      user == Document(key)
      check == forgotCheck(email, user)
      resetToken == nextToken
      withReset == setReset(user, sha256(resetToken), now)
      stored == saveDocument(users[key], user, withReset, {})
      rolledBack == saveDocument(stored, withReset, clearReset(withReset), {})
  IN IF check # Continue THEN Reply(check)
     ELSE IF mailOk
     THEN [Outcome(200, MsgIfAccountReset, [users EXCEPT ![key] = stored]) EXCEPT
             !.token = resetToken, !.mail = "sent"]
     ELSE [Outcome(500, MsgResetSendFailed, [users EXCEPT ![key] = rolledBack]) EXCEPT
             !.token = resetToken, !.mail = "failed"]

\* fault of resetPassword: the token looked up and cleared before the
\* passwords are compared
resetPasswordLookupFirst(token, password, passwordConfirm) ==
  LET valid == resetValidate(token, password, passwordConfirm)
      key == findByResetToken(sha256(token), now)
      user == Document(key)
  IN IF key = "" THEN Reply(Return(400, MsgInvalidOrExpiredReset))
     ELSE IF valid # Continue
     THEN Outcome(valid.status, valid.message, Saved(key, user, clearReset(user), {}))
     ELSE Outcome(200, MsgPasswordReset,
                  Saved(key, user, setPassword(user, password), {"password"}))

resetPassword(token, password, passwordConfirm) ==
  LET valid == resetValidate(token, password, passwordConfirm)
      key == findByResetToken(sha256(token), now)
      user == Document(key)
  IN IF valid # Continue THEN Reply(valid)
     ELSE IF key = "" THEN Reply(Return(400, MsgInvalidOrExpiredReset))
     ELSE Outcome(200, MsgPasswordReset,
                  Saved(key, user, setPassword(user, password), {"password"}))

-----------------------------------------------------------------------------
(* The users router: PUT /:id, PUT /:id/role, POST / and DELETE /:id *)

Roles == {"user", "instructor", "admin"}
\* what a client may send as role ("": none, "root": no role of the platform)
RouterRoleInputs == {"", "instructor", "admin", "root"}
IdInputs == 1 .. MaxIds

\* fault of putUser: the role of the body taken from any actor
putUserAnyRole(accessToken, id, role) ==
  LET auth == protectRequest(accessToken, now)
      actor == Document(auth.user)
      key == findById(id)
  IN IF auth.next = 0 THEN Reply(auth)
     ELSE IF actor.role # "admin" /\ actor.id # id THEN Reply(Return(403, "Not authorized to update this user profile"))
     ELSE IF role # "" /\ role \notin Roles THEN Reply(Return(400, "Invalid role. Must be one of: user, instructor, admin"))
     ELSE IF key = "" THEN Reply(Return(404, MsgUserNotFound))
     ELSE Outcome(200, "", [users EXCEPT ![key].role = IF role # "" THEN role ELSE @])

\* PUT /:id, with no fullName and no email in the body
putUser(accessToken, id, role) ==
  LET auth == protectRequest(accessToken, now)
      actor == Document(auth.user)
      key == findById(id)
      setsRole == actor.role = "admin" /\ role # ""
  IN IF auth.next = 0 THEN Reply(auth)
     ELSE IF actor.role # "admin" /\ actor.id # id THEN Reply(Return(403, "Not authorized to update this user profile"))
     ELSE IF setsRole /\ role \notin Roles THEN Reply(Return(400, "Invalid role. Must be one of: user, instructor, admin"))
     ELSE IF key = "" THEN Reply(Return(404, MsgUserNotFound))
     ELSE Outcome(200, "",
                  [users EXCEPT ![key].role = IF setsRole THEN role ELSE @])

\* PUT /:id/role
putUserRole(accessToken, id, role) ==
  LET auth == protectAuthorize(accessToken, <<"admin">>, now)
      key == findById(id)
  IN IF auth.next = 0 THEN Reply(auth)
     ELSE IF role = "" \/ role \notin Roles THEN Reply(Return(400, "Valid role (user, instructor, admin) is required"))
     ELSE IF key = "" THEN Reply(Return(404, MsgUserNotFound))
     ELSE Outcome(200, "User role updated successfully", [users EXCEPT ![key].role = role])

\* POST /
postUser(accessToken, email, password, role) ==
  LET auth == protectAuthorize(accessToken, <<"admin">>, now)
      created == [NoUser EXCEPT !.id = nextId, !.password = hashPassword(password),
                                !.role = IF role = "" THEN "user" ELSE role,
                                !.emailVerified = TRUE]
  IN IF auth.next = 0 THEN Reply(auth)
     ELSE IF email = "" \/ password = "" THEN Reply(Return(400, "Please provide fullName, email, and password"))
     ELSE IF role # "" /\ role \notin Roles THEN Reply(Return(400, "Invalid role. Must be one of: user, instructor, admin"))
     ELSE IF Document(email).id # 0 THEN Reply(Return(400, MsgUserExists))
     ELSE Outcome(201, "", [users EXCEPT ![email] = created])

\* DELETE /:id
deleteUser(accessToken, id) ==
  LET auth == protectAuthorize(accessToken, <<"admin">>, now)
      key == findById(id)
  IN IF auth.next = 0 THEN Reply(auth)
     ELSE IF users[auth.user].id = id THEN Reply(Return(400, "You cannot delete your own account"))
     ELSE IF key = "" THEN Reply(Return(404, MsgUserNotFound))
     ELSE Outcome(200, "User deleted successfully", [users EXCEPT ![key] = NoUser])

-----------------------------------------------------------------------------
(* Spec: requests arrive one after another, each handler runs to completion *)

\* the requests in flight (SpecConc only)
Slots == 1 .. 2

\* a request slot: the handler, where it stands, what the client sent, the
\* document the handler loaded and its local copy, and the response
IdleRequest ==
  [op |-> "", pc |-> "idle", email |-> "", password |-> "", token |-> 0, jwt |-> NoToken,
   loaded |-> NoUser, changed |-> NoUser, status |-> 0, message |-> "",
   accessToken |-> NoToken, refreshToken |-> NoToken]

History == <<issued, consumedVerification, consumedReset, everVerified>>

Init ==
  /\ users = [e \in Emails |-> NoUser]
  /\ now = StartTime
  /\ ticks = 0
  /\ nextToken = 1
  /\ nextId = 1
  /\ issued = {}
  /\ consumedVerification = {}
  /\ consumedReset = {}
  /\ everVerified = {}
  /\ requests = [s \in Slots |-> IdleRequest]
  /\ courseProgress = [doc |-> NewCourseProgress, stored |-> NewCourseProgress]

Tick(d) ==
  /\ ticks < MaxTicks
  /\ now' = now + d
  /\ ticks' = ticks + 1
  /\ UNCHANGED <<users, nextToken, nextId, History, requests, courseProgress>>

\* the bookkeeping common to the handlers that may generate an opaque token
Generated(out) ==
  /\ out.token # 0 => nextToken <= MaxTokens
  /\ nextToken' = IF out.token # 0 THEN nextToken + 1 ELSE nextToken

\* the bookkeeping common to the handlers that may issue a token pair
Issued(out) ==
  issued' = IF out.refreshToken # NoToken THEN issued \cup {out.refreshToken} ELSE issued

Register(email, password, passwordConfirm, role, mailOk) ==
  LET out == register(email, password, passwordConfirm, role, mailOk)
  IN /\ Generated(out)
     /\ out.status = 201 => nextId <= MaxIds
     /\ users' = out.users
     /\ nextId' = IF out.status = 201 THEN nextId + 1 ELSE nextId
     /\ UNCHANGED <<now, ticks, History, requests, courseProgress>>

Register2(email, password, passwordConfirm, mailOk) ==
  LET out == register2(email, password, passwordConfirm, mailOk)
  IN /\ Generated(out)
     /\ out.status = 201 => nextId <= MaxIds
     /\ users' = out.users
     /\ nextId' = IF out.status = 201 THEN nextId + 1 ELSE nextId
     /\ UNCHANGED <<now, ticks, History, requests, courseProgress>>

Login(email, password, badgeOk) ==
  LET out == login(email, password, badgeOk)
  IN /\ out.status = 200 => out.users[email].loginStreak <= MaxStreak
     /\ users' = out.users
     /\ Issued(out)
     /\ UNCHANGED <<now, ticks, nextToken, nextId, consumedVerification, consumedReset,
                    everVerified, requests, courseProgress>>

Login2(email, password) ==
  LET out == login2(email, password)
  IN /\ users' = out.users
     /\ Issued(out)
     /\ UNCHANGED <<now, ticks, nextToken, nextId, consumedVerification, consumedReset,
                    everVerified, requests, courseProgress>>

\* the bookkeeping common to the two verifyEmail handlers
Verified(token, out) ==
  LET key == findByVerificationToken(sha256(token))
      done == out.status = 200 /\ out.message = MsgEmailVerified
  IN /\ users' = out.users
     /\ consumedVerification' = IF done THEN consumedVerification \cup {token}
                                ELSE consumedVerification
     /\ everVerified' = IF done THEN everVerified \cup {users[key].id} ELSE everVerified
     /\ UNCHANGED <<now, ticks, nextToken, nextId, issued, consumedReset, requests, courseProgress>>

VerifyEmail(token, acceptsHtml) == Verified(token, verifyEmail(token, acceptsHtml))

VerifyEmail2(token) == Verified(token, verifyEmail2(token))

ResendVerification(email, mailOk) ==
  LET out == resendVerification(email, mailOk)
  IN /\ Generated(out)
     /\ users' = out.users
     /\ UNCHANGED <<now, ticks, nextId, History, requests, courseProgress>>

RefreshToken(presented) ==
  LET out == refreshToken(presented)
  IN /\ users' = out.users
     /\ Issued(out)
     /\ UNCHANGED <<now, ticks, nextToken, nextId, consumedVerification, consumedReset,
                    everVerified, requests, courseProgress>>

Logout(accessToken) ==
  /\ users' = logout(accessToken).users
  /\ UNCHANGED <<now, ticks, nextToken, nextId, History, requests, courseProgress>>

ForgotPassword(email, mailOk) ==
  LET out == forgotPassword(email, mailOk)
  IN /\ Generated(out)
     /\ users' = out.users
     /\ UNCHANGED <<now, ticks, nextId, History, requests, courseProgress>>

ResetPassword(token, password, passwordConfirm) ==
  LET out == resetPassword(token, password, passwordConfirm)
  IN /\ users' = out.users
     /\ consumedReset' = IF out.status = 200 THEN consumedReset \cup {token} ELSE consumedReset
     /\ UNCHANGED <<now, ticks, nextToken, nextId, issued, consumedVerification,
                    everVerified, requests, courseProgress>>

\* the requests that arrive; of the inputs that a handler only rejects one
\* or two are kept for each handler
Next ==
  \/ \E d \in Jumps : Tick(d)
  \/ \E e \in RegisterEmails, p \in RegisterPasswords, r \in RoleInputs, m \in BOOLEAN :
        Register(e, p, p, r, m)
  \/ \E e \in Emails, p \in Passwords, b \in BOOLEAN : Login(e, p, b)
  \/ \E t \in TokenInputs, h \in BOOLEAN : VerifyEmail(t, h)
  \/ \E e \in EmailInputs, m \in BOOLEAN : ResendVerification(e, m)
  \/ \E j \in {NoToken} \cup issued : RefreshToken(j)
  \/ \E j \in {NoToken} \cup {AccessOf(r) : r \in issued} : Logout(j)
  \/ \E e \in EmailInputs, m \in BOOLEAN : ForgotPassword(e, m)
  \/ \E t \in TokenInputs, p \in ResetPasswords : ResetPassword(t, p, "secret2")

Spec == Init /\ [][Next]_vars

-----------------------------------------------------------------------------
(* SpecSecond: the second controller of authController.js, whose register   *)
(* deletes the created document when the dispatch fails and whose           *)
(* verifyEmail looks the token up together with its expiry                  *)

NextSecond ==
  \/ \E d \in Jumps : Tick(d)
  \/ \E e \in RegisterEmails, p \in RegisterPasswords, c \in Passwords, m \in BOOLEAN :
        Register2(e, p, c, m)
  \/ \E e \in Emails, p \in Passwords : Login2(e, p)
  \/ \E t \in TokenInputs : VerifyEmail2(t)

SpecSecond == Init /\ [][NextSecond]_vars

-----------------------------------------------------------------------------
(* SpecUsers: the users router next to register, verifyEmail and login, on  *)
(* a collection seeded with an admin                                        *)

InitUsers ==
  /\ users = [e \in Emails |->
                IF e = "b@x.io"
                THEN [NoUser EXCEPT !.id = 1, !.password = hashPassword("secret1"),
                                    !.role = "admin", !.emailVerified = TRUE]
                ELSE NoUser]
  /\ now = StartTime
  /\ ticks = 0
  /\ nextToken = 1
  /\ nextId = 2
  /\ issued = {}
  /\ consumedVerification = {}
  /\ consumedReset = {}
  /\ everVerified = {}
  /\ requests = [s \in Slots |-> IdleRequest]
  /\ courseProgress = [doc |-> NewCourseProgress, stored |-> NewCourseProgress]

PutUser(accessToken, id, role) ==
  /\ users' = putUser(accessToken, id, role).users
  /\ UNCHANGED <<now, ticks, nextToken, nextId, History, requests, courseProgress>>

PutUserRole(accessToken, id, role) ==
  /\ users' = putUserRole(accessToken, id, role).users
  /\ UNCHANGED <<now, ticks, nextToken, nextId, History, requests, courseProgress>>

PostUser(accessToken, email, password, role) ==
  LET out == postUser(accessToken, email, password, role)
  IN /\ out.status = 201 => nextId <= MaxIds
     /\ users' = out.users
     /\ nextId' = IF out.status = 201 THEN nextId + 1 ELSE nextId
     /\ UNCHANGED <<now, ticks, nextToken, History, requests, courseProgress>>

DeleteUser(accessToken, id) ==
  /\ users' = deleteUser(accessToken, id).users
  /\ UNCHANGED <<now, ticks, nextToken, nextId, History, requests, courseProgress>>

\* what a client may send as bearer token: nothing, a forged string, or an
\* access token this server issued
BearerInputs == {NoToken, ForgedToken} \cup {AccessOf(r) : r \in issued}

\* the clock advances by an hour, past the expiry of an access token; logins
\* stop once MaxTokens refresh tokens have been issued; the requests of the
\* router carry an access token this server issued (valid, expired, or of a
\* deleted user)
NextUsers ==
  \/ Tick(OneHour)
  \/ \E e \in RegisterEmails, p \in RegisterPasswords, c \in Passwords, r \in RoleInputs :
        Register(e, p, c, r, TRUE)
  \/ \E e \in Emails, p \in Passwords, b \in BOOLEAN :
        Cardinality(issued) < MaxTokens /\ Login(e, p, b)
  \/ \E t \in issued, i \in IdInputs, r \in RouterRoleInputs : PutUser(AccessOf(t), i, r)
  \/ \E t \in issued, i \in IdInputs, r \in RouterRoleInputs : PutUserRole(AccessOf(t), i, r)
  \/ \E t \in issued, e \in RegisterEmails, p \in RegisterPasswords,
        r \in RouterRoleInputs : PostUser(AccessOf(t), e, p, r)
  \/ \E t \in issued, i \in IdInputs : DeleteUser(AccessOf(t), i)

SpecUsers == InitUsers /\ [][NextUsers]_vars

-----------------------------------------------------------------------------
(* SpecConc: requests in flight together, each handler split at its awaits. *)
(* A step is what a handler does between two awaits; the read of findOne /  *)
(* findById and the write of save() are each one step of the store.         *)

\* the collection after register, verifyEmail and login at StartTime and a
\* forgotPassword one second later: a verified user with a stored refresh
\* token and a pending reset token
InitConc ==
  /\ users = [e \in Emails |->
                IF e = "a@x.io"
                THEN [NoUser EXCEPT
                        !.id = 1, !.password = hashPassword("secret1"), !.role = "user",
                        !.emailVerified = TRUE,
                        !.passwordResetToken = sha256(2),
                        !.passwordResetExpire = StartTime + OneSecond + PasswordResetExpire,
                        !.refreshToken = generateRefreshToken(1, StartTime),
                        !.loginStreak = 1, !.lastLoginDate = StartTime]
                ELSE NoUser]
  /\ now = StartTime + OneSecond
  \* the clock advances of SpecConc are counted from here
  /\ ticks = 0
  /\ nextToken = 3
  /\ nextId = 2
  /\ issued = {generateRefreshToken(1, StartTime)}
  /\ consumedVerification = {1}
  /\ consumedReset = {}
  /\ everVerified = {1}
  /\ requests = [s \in Slots |-> IdleRequest]
  /\ courseProgress = [doc |-> NewCourseProgress, stored |-> NewCourseProgress]

\* the refresh tokens a client holds: those of responses already sent
Delivered ==
  ({generateRefreshToken(1, StartTime)}
     \cup {requests[s].refreshToken : s \in {x \in Slots : requests[x].pc = "done"}})
  \ {NoToken}

DeliveredJwt == {NoToken, ForgedToken} \cup Delivered \cup {AccessOf(r) : r \in Delivered}

\* the handler of slot s sends its response
Respond(r, status, message) == [r EXCEPT !.pc = "done", !.status = status, !.message = message]

\* save(): the write of the handler's changes onto the stored document
Write(r) == [users EXCEPT ![findById(r.loaded.id)] =
               saveDocument(users[findById(r.loaded.id)], r.loaded, r.changed,
                            IF r.op = "resetPassword" THEN {"password"} ELSE {})]

\* login: validation, findOne({email}), emailVerified and matchPassword
LoginFind(s, email, password) ==
  LET r == [IdleRequest EXCEPT !.op = "login", !.email = email, !.password = password]
      user == Document(email)
      check == loginCheck(email, password, user)
  IN /\ requests[s].pc = "idle"
     /\ requests' = [requests EXCEPT ![s] =
                       IF check # Continue THEN Respond(r, check.status, check.message)
                       ELSE [r EXCEPT !.pc = "matched", !.loaded = user, !.changed = user]]
     /\ UNCHANGED <<users, now, ticks, nextToken, nextId, History, courseProgress>>

\* login: the streak update, up to the call of badgeService.checkConsistent
LoginStreak(s) ==
  LET r == requests[s]
      streaked == loginStreak(r.changed, now)
  IN /\ r.op = "login" /\ r.pc = "matched"
     /\ streaked.loginStreak <= MaxStreak
     /\ requests' = [requests EXCEPT ![s] = [r EXCEPT !.pc = "badge", !.changed = streaked]]
     /\ UNCHANGED <<users, now, ticks, nextToken, nextId, History, courseProgress>>

\* login: generateTokens and the call of save(), or the catch of a failed
\* badge check
LoginIssue(s, badgeOk) ==
  LET r == requests[s]
      tokens == generateTokens(r.loaded.id, now)
  IN /\ r.op = "login" /\ r.pc = "badge"
     /\ IF badgeOk
        THEN /\ requests' = [requests EXCEPT ![s] =
                               [r EXCEPT !.pc = "saving",
                                         !.changed.refreshToken = tokens.refreshToken,
                                         !.accessToken = tokens.accessToken,
                                         !.refreshToken = tokens.refreshToken]]
             /\ issued' = issued \cup {tokens.refreshToken}
        ELSE /\ requests' = [requests EXCEPT ![s] = Respond(r, 500, MsgServerError)]
             /\ UNCHANGED issued
     /\ UNCHANGED <<users, now, ticks, nextToken, nextId, consumedVerification,
                    consumedReset, everVerified, courseProgress>>

\* login: the write of save() and the response
LoginSave(s) ==
  LET r == requests[s]
  IN /\ r.op = "login" /\ r.pc = "saving"
     /\ users' = Write(r)
     /\ requests' = [requests EXCEPT ![s] = Respond(r, 200, MsgLoginSuccessful)]
     /\ UNCHANGED <<now, ticks, nextToken, nextId, History, courseProgress>>

\* refreshToken: jwt.verify, findById and the comparison with the stored token
RefreshFind(s, presented) ==
  LET r == [IdleRequest EXCEPT !.op = "refreshToken", !.jwt = presented]
      verify == refreshVerify(presented, now)
      user == Document(findById(presented.id))
      match == refreshMatch(presented, user)
  IN /\ requests[s].pc = "idle"
     /\ requests' = [requests EXCEPT ![s] =
                       IF verify # Continue THEN Respond(r, verify.status, verify.message)
                       ELSE IF match # Continue THEN Respond(r, match.status, match.message)
                       ELSE [r EXCEPT !.pc = "found", !.loaded = user, !.changed = user]]
     /\ UNCHANGED <<users, now, ticks, nextToken, nextId, History, courseProgress>>

\* refreshToken: generateTokens and the call of save()
RefreshIssue(s) ==
  LET r == requests[s]
      tokens == generateTokens(r.loaded.id, now)
  IN /\ r.op = "refreshToken" /\ r.pc = "found"
     /\ requests' = [requests EXCEPT ![s] =
                       [r EXCEPT !.pc = "saving",
                                 !.changed.refreshToken = tokens.refreshToken,
                                 !.accessToken = tokens.accessToken,
                                 !.refreshToken = tokens.refreshToken]]
     /\ issued' = issued \cup {tokens.refreshToken}
     /\ UNCHANGED <<users, now, ticks, nextToken, nextId, consumedVerification,
                    consumedReset, everVerified, courseProgress>>

\* refreshToken: the write of save() and the response
RefreshSave(s) ==
  LET r == requests[s]
  IN /\ r.op = "refreshToken" /\ r.pc = "saving"
     /\ users' = Write(r)
     /\ requests' = [requests EXCEPT ![s] = Respond(r, 200, MsgRefreshed)]
     /\ UNCHANGED <<now, ticks, nextToken, nextId, History, courseProgress>>

\* resetPassword: validation and findOne({passwordResetToken, passwordResetExpire: {$gt}})
ResetFind(s, token, password, passwordConfirm) ==
  LET r == [IdleRequest EXCEPT !.op = "resetPassword", !.token = token, !.password = password]
      valid == resetValidate(token, password, passwordConfirm)
      user == Document(findByResetToken(sha256(token), now))
  IN /\ requests[s].pc = "idle"
     /\ requests' = [requests EXCEPT ![s] =
                       IF valid # Continue THEN Respond(r, valid.status, valid.message)
                       ELSE IF user.id = 0 THEN Respond(r, 400, MsgInvalidOrExpiredReset)
                       ELSE [r EXCEPT !.pc = "found", !.loaded = user,
                                      !.changed = setPassword(user, password)]]
     /\ UNCHANGED <<users, now, ticks, nextToken, nextId, History, courseProgress>>

\* resetPassword: the write of save() and the response
ResetSave(s) ==
  LET r == requests[s]
  IN /\ r.op = "resetPassword" /\ r.pc = "found"
     /\ users' = Write(r)
     /\ consumedReset' = consumedReset \cup {r.token}
     /\ requests' = [requests EXCEPT ![s] = Respond(r, 200, MsgPasswordReset)]
     /\ UNCHANGED <<now, ticks, nextToken, nextId, issued, consumedVerification, everVerified, courseProgress>>

NextConc ==
  \/ \E d \in Jumps : Tick(d)
  \/ \E s \in Slots, e \in Emails, p \in Passwords : LoginFind(s, e, p)
  \/ \E s \in Slots : LoginStreak(s)
  \/ \E s \in Slots, b \in BOOLEAN : LoginIssue(s, b)
  \/ \E s \in Slots : LoginSave(s)
  \/ \E s \in Slots, j \in DeliveredJwt : RefreshFind(s, j)
  \/ \E s \in Slots : RefreshIssue(s)
  \/ \E s \in Slots : RefreshSave(s)
  \/ \E s \in Slots, t \in TokenInputs, p \in ResetPasswords, c \in ResetPasswords :
       ResetFind(s, t, p, c)
  \/ \E s \in Slots : ResetSave(s)

SpecConc == InitConc /\ [][NextConc]_vars

-----------------------------------------------------------------------------
(* SpecConcSignup: register, verifyEmail and resendVerification requests in *)
(* flight together, on the empty collection or on the collection after one  *)
(* register                                                                 *)

InitConcSignup ==
  \/ Init
  \/ /\ users = [e \in Emails |->
                   IF e = "a@x.io" THEN createUser(1, "secret1", sha256(1), StartTime)
                   ELSE NoUser]
     /\ now = StartTime
     /\ ticks = 0
     /\ nextToken = 2
     /\ nextId = 2
     /\ issued = {}
     /\ consumedVerification = {}
     /\ consumedReset = {}
     /\ everVerified = {}
     /\ requests = [s \in Slots |-> IdleRequest]
     /\ courseProgress = [doc |-> NewCourseProgress, stored |-> NewCourseProgress]

\* User.create(doc) under the unique index on email: the collection with
\* the document inserted, or the duplicate-key error
createDocument(email, doc) ==
  IF users[email].id # 0
  THEN [ok |-> FALSE, users |-> users]
  ELSE [ok |-> TRUE, users |-> [users EXCEPT ![email] = doc]]

\* register: validation, findOne({email}) and the role check
RegisterFind(s, email, password, passwordConfirm, role) ==
  LET r == [IdleRequest EXCEPT !.op = "register", !.email = email, !.password = password]
      check == registerCheck(email, password, passwordConfirm, role, Document(email))
  IN /\ requests[s].pc = "idle"
     /\ requests' = [requests EXCEPT ![s] =
                       IF check # Continue THEN Respond(r, check.status, check.message)
                       ELSE [r EXCEPT !.pc = "checked"]]
     /\ UNCHANGED <<users, now, ticks, nextToken, nextId, History, courseProgress>>

\* register: generateVerificationToken and User.create, or the catch of its
\* error
RegisterCreate(s) ==
  LET r == requests[s]
      tok == generateVerificationToken(nextToken)
      doc == createUser(nextId, r.password, tok.hashedToken, now)
      created == createDocument(r.email, doc)
  IN /\ r.op = "register" /\ r.pc = "checked"
     /\ nextToken <= MaxTokens /\ nextId <= MaxIds
     /\ nextToken' = nextToken + 1
     /\ users' = created.users
     /\ nextId' = IF created.ok THEN nextId + 1 ELSE nextId
     /\ requests' = [requests EXCEPT ![s] =
                       IF created.ok
                       THEN [r EXCEPT !.pc = "mailing", !.token = tok.verificationToken,
                                      !.loaded = doc, !.changed = doc]
                       ELSE Respond(r, 500, "E11000 duplicate key error")]
     /\ UNCHANGED <<now, ticks, History, courseProgress>>

\* register: sendEmail, whose failure is logged, and the response
RegisterSend(s, mailOk) ==
  LET r == requests[s]
  IN /\ r.op = "register" /\ r.pc = "mailing"
     /\ requests' = [requests EXCEPT ![s] = Respond(r, 201, MsgRegistered)]
     /\ UNCHANGED <<users, now, ticks, nextToken, nextId, History, courseProgress>>

\* verifyEmail (JSON request): the token, findOne by its hash, the expiry
\* and already-verified checks, and the field updates
VerifyFind(s, token) ==
  LET r == [IdleRequest EXCEPT !.op = "verifyEmail", !.token = token]
      user == Document(findByVerificationToken(sha256(token)))
      check == verifyEmailCheck(token, user, now)
  IN /\ requests[s].pc = "idle"
     /\ requests' = [requests EXCEPT ![s] =
                       IF check # Continue THEN Respond(r, check.status, check.message)
                       ELSE [r EXCEPT !.pc = "found", !.loaded = user,
                                      !.changed = markVerified(user)]]
     /\ UNCHANGED <<users, now, ticks, nextToken, nextId, History, courseProgress>>

\* verifyEmail: the write of save() and the response
VerifySave(s) ==
  LET r == requests[s]
  IN /\ r.op = "verifyEmail" /\ r.pc = "found"
     /\ users' = Write(r)
     /\ consumedVerification' = consumedVerification \cup {r.token}
     /\ everVerified' = everVerified \cup {r.loaded.id}
     /\ requests' = [requests EXCEPT ![s] = Respond(r, 200, MsgEmailVerified)]
     /\ UNCHANGED <<now, ticks, nextToken, nextId, issued, consumedReset, courseProgress>>

\* resendVerification: validation, findOne, the already-verified check, the
\* new token and the field updates
ResendFind(s, email) ==
  LET r == [IdleRequest EXCEPT !.op = "resendVerification", !.email = email]
      user == Document(KeyOf(email))
      check == resendCheck(email, user)
      tok == generateVerificationToken(nextToken)
  IN /\ requests[s].pc = "idle"
     /\ check = Continue => nextToken <= MaxTokens
     /\ nextToken' = IF check = Continue THEN nextToken + 1 ELSE nextToken
     /\ requests' = [requests EXCEPT ![s] =
                       IF check # Continue THEN Respond(r, check.status, check.message)
                       ELSE [r EXCEPT !.pc = "found", !.token = tok.verificationToken,
                                      !.loaded = user,
                                      !.changed = rotateVerification(user, tok.hashedToken, now)]]
     /\ UNCHANGED <<users, now, ticks, nextId, History, courseProgress>>

\* resendVerification: the write of save()
ResendSave(s) ==
  LET r == requests[s]
  IN /\ r.op = "resendVerification" /\ r.pc = "found"
     /\ users' = Write(r)
     /\ requests' = [requests EXCEPT ![s] = [r EXCEPT !.pc = "mailing"]]
     /\ UNCHANGED <<now, ticks, nextToken, nextId, History, courseProgress>>

\* resendVerification: sendEmail and the response
ResendSend(s, mailOk) ==
  LET r == requests[s]
  IN /\ r.op = "resendVerification" /\ r.pc = "mailing"
     /\ requests' = [requests EXCEPT ![s] =
                       IF mailOk THEN Respond(r, 200, MsgVerificationSent)
                       ELSE Respond(r, 500, MsgVerificationSendFailed)]
     /\ UNCHANGED <<users, now, ticks, nextToken, nextId, History, courseProgress>>

NextConcSignup ==
  \/ \E d \in Jumps : Tick(d)
  \/ \E s \in Slots, e \in Emails \cup {""}, p \in RegisterPasswords, c \in Passwords,
        r \in RoleInputs : RegisterFind(s, e, p, c, r)
  \/ \E s \in Slots : RegisterCreate(s)
  \/ \E s \in Slots, m \in BOOLEAN : RegisterSend(s, m)
  \/ \E s \in Slots, t \in TokenInputs : VerifyFind(s, t)
  \/ \E s \in Slots : VerifySave(s)
  \/ \E s \in Slots, e \in EmailInputs : ResendFind(s, e)
  \/ \E s \in Slots : ResendSave(s)
  \/ \E s \in Slots, m \in BOOLEAN : ResendSend(s, m)

SpecConcSignup == InitConcSignup /\ [][NextConcSignup]_vars

-----------------------------------------------------------------------------
(* SpecConcForgot: forgotPassword requests in flight together, split at     *)
(* their awaits, next to resetPassword, on the collection after register    *)
(* and verifyEmail                                                          *)

InitConcForgot ==
  /\ users = [e \in Emails |->
                IF e = "a@x.io"
                THEN [NoUser EXCEPT
                        !.id = 1, !.password = hashPassword("secret1"), !.role = "user",
                        !.emailVerified = TRUE]
                ELSE NoUser]
  /\ now = StartTime
  /\ ticks = 0
  /\ nextToken = 2
  /\ nextId = 2
  /\ issued = {}
  /\ consumedVerification = {1}
  /\ consumedReset = {}
  /\ everVerified = {1}
  /\ requests = [s \in Slots |-> IdleRequest]
  /\ courseProgress = [doc |-> NewCourseProgress, stored |-> NewCourseProgress]

\* forgotPassword: validation and findOne({email})
ForgotFind(s, email) ==
  LET r == [IdleRequest EXCEPT !.op = "forgotPassword", !.email = email]
      user == Document(KeyOf(email))
      check == forgotCheck(email, user)
  IN /\ requests[s].pc = "idle"
     /\ requests' = [requests EXCEPT ![s] =
                       IF check # Continue THEN Respond(r, check.status, check.message)
                       ELSE [r EXCEPT !.pc = "found", !.loaded = user, !.changed = user]]
     /\ UNCHANGED <<users, now, ticks, nextToken, nextId, History, courseProgress>>

\* forgotPassword: the reset token generated, set on the document and written
\* by save()
ForgotSave(s) ==
  LET r == requests[s]
      withReset == setReset(r.loaded, sha256(nextToken), now)
  IN /\ r.op = "forgotPassword" /\ r.pc = "found"
     /\ nextToken <= MaxTokens
     /\ users' = Write([r EXCEPT !.changed = withReset])
     /\ nextToken' = nextToken + 1
     /\ requests' = [requests EXCEPT ![s] =
                       [r EXCEPT !.pc = "sending", !.token = nextToken,
                                 !.loaded = withReset, !.changed = withReset]]
     /\ UNCHANGED <<now, ticks, nextId, History, courseProgress>>

\* forgotPassword: sendEmail resolves and the response is sent, or it rejects
\* and the catch clears the reset fields on the document
ForgotSend(s, mailOk) ==
  LET r == requests[s]
  IN /\ r.op = "forgotPassword" /\ r.pc = "sending"
     /\ requests' = [requests EXCEPT ![s] =
                       IF mailOk THEN Respond(r, 200, MsgIfAccountReset)
                       ELSE [r EXCEPT !.pc = "rollback", !.changed = clearReset(r.loaded)]]
     /\ UNCHANGED <<users, now, ticks, nextToken, nextId, History, courseProgress>>

\* forgotPassword: the write of the save() in the catch and the response
ForgotRollback(s) ==
  LET r == requests[s]
  IN /\ r.op = "forgotPassword" /\ r.pc = "rollback"
     /\ users' = Write(r)
     /\ requests' = [requests EXCEPT ![s] = Respond(r, 500, MsgResetSendFailed)]
     /\ UNCHANGED <<now, ticks, nextToken, nextId, History, courseProgress>>

NextConcForgot ==
  \/ \E d \in Jumps : Tick(d)
  \/ \E s \in Slots, e \in EmailInputs : ForgotFind(s, e)
  \/ \E s \in Slots : ForgotSave(s)
  \/ \E s \in Slots, m \in BOOLEAN : ForgotSend(s, m)
  \/ \E s \in Slots : ForgotRollback(s)
  \/ \E t \in TokenInputs, p \in ResetPasswords : ResetPassword(t, p, "secret2")

SpecConcForgot == InitConcForgot /\ [][NextConcForgot]_vars

-----------------------------------------------------------------------------
(* SpecProgress: updateProgress called on the CourseProgress document of a  *)
(* user and course, freshly loaded or still in memory from the call before  *)

\* updateProgress and its save(): the validators of the schema (progress
\* min 0, max 100) reject the save and leave the stored document as it was
UpdateProgress(completedLessonsCount, totalLessons, reload) ==
  LET this == IF reload THEN courseProgress.stored ELSE courseProgress.doc
      updated == updateProgress(this, completedLessonsCount, totalLessons, now)
  IN /\ courseProgress' =
          [doc |-> updated,
           stored |-> IF updated.progress >= 0 /\ updated.progress <= 100 THEN updated
                      ELSE courseProgress.stored]
     /\ UNCHANGED <<users, now, ticks, nextToken, nextId, History, requests>>

NextProgress ==
  \/ \E d \in Jumps : Tick(d)
  \/ \E c \in 0 .. MaxLessons, t \in 0 .. MaxLessons, r \in BOOLEAN : UpdateProgress(c, t, r)

SpecProgress == Init /\ [][NextProgress]_vars

-----------------------------------------------------------------------------
(* Properties of the lifecycle under Spec *)

\* what the caller of a handler sees
Response(out) ==
  [status |-> out.status, message |-> out.message,
   accessToken |-> out.accessToken, refreshToken |-> out.refreshToken]

HasAccount(e) == e \in Emails /\ users[e].id # 0

\* an opaque token value that no handler ever generated
NeverIssued == MaxTokens + 1

\* C1: after a successful RefreshToken or Login has issued a new refresh token
\* to a user, a RefreshToken request presenting the token that was stored
\* before fails (with "Invalid refresh token" while it is unexpired); the
\* stored, unexpired token is accepted.
C1_RefreshRotation ==
  /\ [](\A e \in Emails :
          (HasAccount(e) /\ jwtVerify(users[e].refreshToken, RefreshSecret, now) = "ok")
            => refreshToken(users[e].refreshToken).status = 200)
  /\ [][\A e \in Emails, old \in issued :
          ( /\ old = users[e].refreshToken
            /\ \/ RefreshToken(old) /\ refreshToken(old).status = 200
               \/ \E p \in Passwords : Login(e, p, TRUE) /\ login(e, p, TRUE).status = 200 )
          => ( /\ refreshToken(old).status = 401
               /\ jwtVerify(old, RefreshSecret, now) = "ok"
                    => refreshToken(old).message = MsgInvalidRefresh )' ]_vars

\* C4: a successful ResetPassword sets the password and clears
\* passwordResetToken and passwordResetExpire in one write; a ResetPassword
\* with a reset token that has been used fails and changes nothing.
C4_ResetTokenSingleUse ==
  \A t \in TokenInputs, p \in Passwords :
    LET out == resetPassword(t, p, p)
        key == findByResetToken(sha256(t), now)
    IN /\ out.status = 200 =>
            /\ out.users[key] = [users[key] EXCEPT !.password = hashPassword(p),
                                                   !.passwordResetToken = 0,
                                                   !.passwordResetExpire = 0]
            /\ \A e \in Emails \ {key} : out.users[e] = users[e]
       /\ t \in consumedReset =>
            /\ out.status = 400
            /\ out.message = MsgInvalidOrExpiredReset
            /\ out.users = users

C4_Witness ==
  \E t \in consumedReset, e \in Emails :
    /\ users[e].password = hashPassword("secret2")
    /\ resetPassword(t, "secret1", "secret1").status = 400

\* C5: a verification token consumed by a successful VerifyEmail is rejected
\* as invalid by every later VerifyEmail (of either controller), which changes
\* nothing.
C5_VerificationTokenSingleUse ==
  \A t \in consumedVerification :
    /\ Response(verifyEmail(t, FALSE)) = Response(Reply(Return(400, MsgInvalidVerificationToken)))
    /\ verifyEmail(t, FALSE).users = users
    /\ Response(verifyEmail2(t)) = Response(Reply(Return(400, MsgInvalidOrExpiredVerification)))
    /\ verifyEmail2(t).users = users

C5_Witness ==
  \E t \in consumedVerification, e \in Emails :
    users[e].emailVerified /\ verifyEmail(t, FALSE).status = 400

\* C6: a verification or reset token that matches the stored hash and is
\* presented after its expiry is rejected with a response that differs from
\* the response to a token matching nothing, and nothing is changed.
C6_ExpiredTokenDistinguished ==
  \A t \in 1 .. MaxTokens, e \in Emails, p \in Passwords :
    /\ ( /\ HasAccount(e)
         /\ users[e].emailVerificationToken = sha256(t)
         /\ users[e].emailVerificationExpire < now )
       => /\ verifyEmail(t, FALSE).status = 400
          /\ verifyEmail(t, FALSE).message = MsgVerificationExpired
          /\ Response(verifyEmail(t, FALSE)) # Response(verifyEmail(NeverIssued, FALSE))
          /\ verifyEmail(t, FALSE).users = users
    /\ ( /\ HasAccount(e)
         /\ users[e].passwordResetToken = sha256(t)
         /\ users[e].passwordResetExpire < now )
       => /\ resetPassword(t, p, p).status = 400
          /\ Response(resetPassword(t, p, p)) # Response(resetPassword(NeverIssued, p, p))
          /\ resetPassword(t, p, p).users = users

\* C7: Login with the correct password of an unverified user fails with 403
\* "Please verify your email before logging in", issues no tokens and changes
\* nothing; a Login succeeds only for a user for whom a VerifyEmail succeeded.
C7_LoginRequiresVerification ==
  \A e \in Emails, p \in Passwords, b \in BOOLEAN :
    /\ (HasAccount(e) /\ ~users[e].emailVerified /\ matchPassword(users[e], p))
         => /\ Response(login(e, p, b)) = Response(Reply(Return(403, MsgVerifyFirst)))
            /\ login(e, p, b).users = users
    /\ login(e, p, b).status = 200 => users[e].id \in everVerified

C7_Witness ==
  \E e \in Emails :
    /\ HasAccount(e) /\ ~users[e].emailVerified /\ matchPassword(users[e], "secret1")
    /\ login(e, "secret1", TRUE).status = 403

\* C8 as stated: Login answers 401 "Invalid credentials" whenever the user is
\* absent or the password does not match, and for every existing user,
\* verified or not, that answer is the answer for an e-mail with no account.
C8_MismatchLikeAbsent ==
  \A e \in Emails, absent \in Emails, p \in Passwords, b \in BOOLEAN :
    (~HasAccount(absent) /\ (~HasAccount(e) \/ ~matchPassword(users[e], p)))
      => /\ Response(login(e, p, b)) = Response(Reply(Return(401, MsgInvalidCredentials)))
         /\ Response(login(e, p, b)) = Response(login(absent, p, b))

\* C8 amended: the same for an absent user and for every verified user; an
\* unverified user gets 403 whatever the password.
C8_VerifiedMismatchLikeAbsent ==
  \A e \in Emails, absent \in Emails, p \in Passwords, b \in BOOLEAN :
    /\ ( /\ ~HasAccount(absent)
         /\ \/ ~HasAccount(e)
            \/ users[e].emailVerified /\ ~matchPassword(users[e], p) )
       => /\ Response(login(e, p, b)) = Response(Reply(Return(401, MsgInvalidCredentials)))
          /\ Response(login(e, p, b)) = Response(login(absent, p, b))
          /\ login(e, p, b).users = users
    /\ (HasAccount(e) /\ ~users[e].emailVerified)
       => Response(login(e, p, b)) = Response(Reply(Return(403, MsgVerifyFirst)))

C8_Witness ==
  \E e \in Emails, absent \in Emails :
    /\ HasAccount(e) /\ users[e].emailVerified /\ ~HasAccount(absent)
    /\ ~matchPassword(users[e], "secret2")
    /\ login(e, "secret2", TRUE).status = 401

\* C9 as stated: ForgotPassword answers an existing e-mail exactly as it
\* answers a non-existent one, whatever the outcome of the dispatch.
C9_ForgotSameResponse ==
  \A e \in EmailInputs, absent \in Emails, m \in BOOLEAN :
    (HasAccount(KeyOf(e)) /\ ~HasAccount(absent))
      => Response(forgotPassword(e, m)) = Response(forgotPassword(absent, m))

\* C9 amended: the answers are identical when the dispatch succeeds; when it
\* fails the existing e-mail gets 500 "Failed to send password reset email".
C9_ForgotSameResponseWhenSent ==
  \A e \in EmailInputs, absent \in Emails :
    (HasAccount(KeyOf(e)) /\ ~HasAccount(absent))
      => /\ Response(forgotPassword(e, TRUE)) = Response(forgotPassword(absent, TRUE))
         /\ Response(forgotPassword(absent, TRUE)) = Response(Reply(Return(200, MsgIfAccountReset)))
         /\ Response(forgotPassword(absent, FALSE)) = Response(forgotPassword(absent, TRUE))
         /\ forgotPassword(absent, TRUE).users = users
         /\ Response(forgotPassword(e, FALSE)) = Response(Reply(Return(500, MsgResetSendFailed)))

C9_Witness ==
  \E e \in Emails, absent \in Emails :
    /\ HasAccount(e) /\ ~HasAccount(absent)
    /\ users[e].passwordResetToken # 0
    /\ forgotPassword(e, TRUE).status = 200

\* C10: ResendVerification answers with the same success-shaped response
\* (status and success flag) whether or not an account exists for the e-mail.
C10_ResendSameShape ==
  \A e \in EmailInputs, absent \in Emails, m \in BOOLEAN :
    (HasAccount(KeyOf(e)) /\ ~HasAccount(absent))
      => /\ resendVerification(e, m).status = resendVerification(absent, m).status
         /\ resendVerification(e, m).status = 200

\* C13: a successful login sets the streak to 1 when there was no login
\* before, adds exactly 1 when at most 24 hours passed since lastLoginDate
\* and resets it to 1 otherwise, and sets lastLoginDate to now in each case;
\* 23 hours after the last login the streak grows, 25 hours after it is 1.
C13_LoginStreakRule ==
  \A e \in Emails, p \in Passwords :
    LET out == login(e, p, TRUE)
        user == users[e]
    IN /\ out.status = 200 =>
            /\ out.users[e].loginStreak =
                 IF user.lastLoginDate = 0 THEN 1
                 ELSE IF now - user.lastLoginDate <= 24 * 60 * 60 * 1000
                      THEN user.loginStreak + 1
                      ELSE 1
            /\ out.users[e].lastLoginDate = now
       /\ out.status # 200 => out.users = users
       /\ (HasAccount(e) /\ user.lastLoginDate # 0) =>
            /\ loginStreak(user, user.lastLoginDate + 23 * OneHour).loginStreak
                 = user.loginStreak + 1
            /\ loginStreak(user, user.lastLoginDate + 25 * OneHour).loginStreak = 1
            /\ loginStreak(user, user.lastLoginDate + 25 * OneHour).lastLoginDate
                 = user.lastLoginDate + 25 * OneHour

\* a login exactly 24 hours after the first one has raised the streak to 2
C13_Witness ==
  \E e \in Emails :
    /\ users[e].loginStreak = 2
    /\ users[e].lastLoginDate = StartTime + OneDay
    /\ now = StartTime + OneDay

\* C14: forgotPassword for an existing user stores the hash of the new reset
\* token with an expiry one hour ahead and dispatches the e-mail; when the
\* dispatch fails it answers 500 with both reset fields cleared, and a user
\* whose reset fields are cleared is found by no reset token.
C14_ForgotRollback ==
  \A e \in EmailInputs :
    HasAccount(KeyOf(e)) =>
      LET key == KeyOf(e)
          sent == forgotPassword(e, TRUE)
          failed == forgotPassword(e, FALSE)
      IN /\ sent.status = 200 /\ sent.mail = "sent"
         /\ sent.users = [users EXCEPT ![key].passwordResetToken = sha256(sent.token),
                                       ![key].passwordResetExpire = now + 60 * 60 * 1000]
         /\ Response(failed) = Response(Reply(Return(500, MsgResetSendFailed)))
         /\ failed.users = [users EXCEPT ![key].passwordResetToken = 0,
                                         ![key].passwordResetExpire = 0]
         /\ users[key].passwordResetToken = 0
              => \A t \in TokenInputs : findByResetToken(sha256(t), now) # key

\* a verified user for whom one opaque token was generated after the one of
\* register, with nothing stored and nothing consumed: a forgotPassword whose
\* dispatch failed
C14_Witness ==
  \E e \in Emails :
    /\ users[e].emailVerified
    /\ consumedVerification = {1}
    /\ nextToken = 3
    /\ consumedReset = {}
    /\ users[e].passwordResetToken = 0 /\ users[e].passwordResetExpire = 0
    /\ forgotPassword(e, FALSE).status = 500

\* C16: every user has no pending verification token or a verification
\* hash that has not expired.
C16_NoExpiredVerificationHash ==
  \A e \in Emails :
    HasAccount(e) =>
      \/ users[e].emailVerificationToken = 0 /\ users[e].emailVerificationExpire = 0
      \/ users[e].emailVerificationToken # 0 /\ users[e].emailVerificationExpire >= now

\* C20: logout clears the stored refresh token and nothing else; while the
\* stored refresh token of a user is cleared, refreshToken fails for every
\* refresh token issued to the user, and a logout of the user succeeds and
\* changes nothing.
C20_LogoutClearsRefreshToken ==
  /\ \A j \in JwtInputs :
       logout(j).status = 200
         => logout(j).users = [users EXCEPT ![findById(j.id)].refreshToken = NoToken]
  /\ \A e \in Emails :
       (HasAccount(e) /\ users[e].refreshToken = NoToken) =>
         /\ \A r \in issued :
              r.id = users[e].id
                => /\ refreshToken(r).status = 401
                   /\ refreshToken(r).users = users
                   /\ refreshToken(r).refreshToken = NoToken
         /\ \A j \in JwtInputs :
              (findById(j.id) = e /\ jwtVerify(j, AccessSecret, now) = "ok")
                => /\ Response(logout(j)) = Response(Reply(Return(200, MsgLoggedOut)))
                   /\ logout(j).users = users

C20_Witness ==
  \E e \in Emails, r \in issued :
    /\ HasAccount(e) /\ users[e].refreshToken = NoToken /\ r.id = users[e].id
    /\ jwtVerify(r, RefreshSecret, now) = "ok"
    /\ refreshToken(r).status = 401
    /\ logout(AccessOf(r)).status = 200

\* a handler that answers 400, 401 or 403 has written nothing, generated no
\* opaque token and issued no token pair
Kept(out) ==
  out.status \in {400, 401, 403}
    => /\ out.users = users
       /\ out.token = 0
       /\ out.accessToken = NoToken /\ out.refreshToken = NoToken

\* C21: register, login, verifyEmail, resendVerification, resetPassword and
\* refreshToken leave every stored user as it was whenever they end in a
\* validation, credential, token or authorization failure (400, 401, 403).
C21_FailuresCommitNothing ==
  /\ \A e \in RegisterEmails, c \in Passwords, r \in RoleInputs :
       Kept(register(e, "secret1", c, r, TRUE))
  /\ \A e \in Emails \cup {""}, p \in Passwords : Kept(login(e, p, TRUE))
  /\ \A t \in TokenInputs : Kept(verifyEmail(t, FALSE))
  /\ \A e \in EmailInputs : Kept(resendVerification(e, TRUE))
  /\ \A t \in TokenInputs, p \in ResetPasswords, c \in ResetPasswords :
       Kept(resetPassword(t, p, c))
  /\ \A j \in JwtInputs : Kept(refreshToken(j))

\* a verified user with a stored refresh token and a pending reset token, for
\* whom a login, a resend, a register, a reset and a refresh are refused
C21_Witness ==
  \E e \in Emails, t \in 1 .. MaxTokens :
    /\ HasAccount(e) /\ users[e].emailVerified
    /\ users[e].refreshToken # NoToken
    /\ users[e].passwordResetToken = sha256(t) /\ users[e].passwordResetExpire > now
    /\ login(e, "secret2", TRUE).status = 401
    /\ resendVerification(e, TRUE).status = 400
    /\ register(e, "secret1", "secret1", "", TRUE).status = 400
    /\ resetPassword(t, "abc", "abc").status = 400
    /\ refreshToken(AccessOf(users[e].refreshToken)).status = 401

\* C23: a resendVerification whose e-mail fails to be dispatched keeps the
\* rotated verification hash and expiry stored and answers with success.
C23_ResendDispatchSwallowed ==
  \A e \in EmailInputs :
    (HasAccount(KeyOf(e)) /\ ~users[KeyOf(e)].emailVerified) =>
      LET out == resendVerification(e, FALSE)
      IN /\ out.users = [users EXCEPT
                           ![KeyOf(e)].emailVerificationToken = sha256(out.token),
                           ![KeyOf(e)].emailVerificationExpire = now + 24 * 60 * 60 * 1000]
         /\ out.status = 200

\* C24: resetPassword with password # passwordConfirm answers 400 "Passwords
\* do not match" whatever the token is (a pending one, a used one, one never
\* issued), writes nothing, and a pending token is accepted afterwards.
C24_MismatchBeforeLookup ==
  \A t \in 1 .. MaxTokens + 1, p \in ResetPasswords, c \in ResetPasswords :
    p # c =>
      /\ resetPassword(t, p, c) = Reply(Return(400, MsgPasswordsDoNotMatch))
      /\ findByResetToken(sha256(t), now) # ""
           => resetPassword(t, "secret2", "secret2").status = 200

C24_Witness ==
  \E t \in 1 .. MaxTokens :
    /\ findByResetToken(sha256(t), now) # ""
    /\ resetPassword(t, "abc", "secret2").message = MsgPasswordsDoNotMatch
    /\ resetPassword(t, "secret2", "secret2").status = 200

\* C25: refreshToken succeeds exactly for a token that carries the signature
\* of the refresh secret, has not expired and is the refresh token stored for
\* its user; the stored token presented after its expiry is answered 401
\* "Invalid or expired refresh token" and stays stored.
C25_RefreshOnlyStoredUnexpired ==
  /\ \A j \in JwtInputs :
       refreshToken(j).status = 200
         <=> /\ j.secret = RefreshSecret
             /\ now \div 1000 < j.iat + 7 * 24 * 60 * 60
             /\ \E e \in Emails : HasAccount(e) /\ users[e].id = j.id /\ users[e].refreshToken = j
  /\ \A e \in Emails :
       ( /\ HasAccount(e) /\ users[e].refreshToken # NoToken
         /\ now \div 1000 >= users[e].refreshToken.iat + 7 * 24 * 60 * 60 )
         => refreshToken(users[e].refreshToken) = Reply(Return(401, MsgInvalidOrExpiredRefresh))

C25_Witness ==
  \E e \in Emails :
    /\ HasAccount(e) /\ users[e].refreshToken # NoToken
    /\ jwtVerify(users[e].refreshToken, RefreshSecret, now) = "expired"
    /\ refreshToken(users[e].refreshToken).status = 401

\* C26: the two secrets differ; every refresh token issued, presented as the
\* bearer token, is refused by protect (401 "Not authorized") and sets no
\* identity in optionalAuth, and the access token issued with it, presented
\* to refreshToken, is answered 401 and changes nothing.
C26_TokensNotInterchangeable ==
  /\ AccessSecret # RefreshSecret
  /\ \A r \in issued :
       /\ protectRequest(r, now) = Rejected(401, MsgNotAuthorized)
       /\ optionalAuth(r, now).user = ""
       /\ logout(r) = Reply(Return(401, MsgNotAuthorized))
       /\ refreshToken(AccessOf(r)) = Reply(Return(401, MsgInvalidOrExpiredRefresh))

\* the stored refresh token and its access token, both unexpired and each
\* accepted where it belongs
C26_Witness ==
  \E e \in Emails :
    LET r == users[e].refreshToken
    IN /\ HasAccount(e) /\ r \in issued
       /\ refreshToken(r).status = 200
       /\ protectRequest(AccessOf(r), now).next = 1
       /\ protectRequest(r, now).status = 401
       /\ refreshToken(AccessOf(r)).status = 401

\* the opaque tokens generated so far (the plaintexts sent by e-mail)
Plaintexts == 1 .. (nextToken - 1)

\* C27: a stored emailVerificationToken or passwordResetToken is the hash of
\* an opaque token generated before and never a plaintext; verifyEmail and
\* resetPassword succeed only for a token whose hash is stored, and the
\* stored hash presented as the token is refused.
C27_OnlyHashesStored ==
  /\ \A t \in TokenInputs :
       /\ (verifyEmail(t, FALSE).status = 200 \/ verifyEmail2(t).status = 200)
            => \E x \in Emails : HasAccount(x) /\ users[x].emailVerificationToken = sha256(t)
       /\ resetPassword(t, "secret2", "secret2").status = 200
            => \E x \in Emails : HasAccount(x) /\ users[x].passwordResetToken = sha256(t)
  /\ \A e \in Emails :
       /\ users[e].emailVerificationToken \in {0} \cup {sha256(t) : t \in Plaintexts}
       /\ users[e].passwordResetToken \in {0} \cup {sha256(t) : t \in Plaintexts}
       /\ users[e].emailVerificationToken \notin Plaintexts
       /\ users[e].passwordResetToken \notin Plaintexts
       /\ users[e].emailVerificationToken # 0 =>
            /\ verifyEmail(users[e].emailVerificationToken, FALSE).message
                 = MsgInvalidVerificationToken
            /\ verifyEmail2(users[e].emailVerificationToken).status = 400
       /\ users[e].passwordResetToken # 0 =>
            resetPassword(users[e].passwordResetToken, "secret2", "secret2").message
              = MsgInvalidOrExpiredReset

\* a user with a pending verification token and a pending reset token, each
\* accepted as plaintext
C27_Witness ==
  \E e \in Emails, t \in Plaintexts, u \in Plaintexts :
    /\ users[e].emailVerificationToken = sha256(t)
    /\ users[e].passwordResetToken = sha256(u)
    /\ verifyEmail(t, FALSE).message = MsgEmailVerified
    /\ resetPassword(u, "secret2", "secret2").status = 200
    /\ verifyEmail(sha256(t), FALSE).status = 400

\* C28: in the state a successful resendVerification for an unverified user
\* leaves, verifyEmail answers every verification token generated before
\* with 400 "Invalid verification token" and verifies the e-mail for the
\* token just generated.
C28_ResendRotates ==
  [][\A e \in EmailInputs :
       ( /\ nextToken' = nextToken + 1
         /\ resendVerification(e, TRUE).message = MsgVerificationSent
         /\ ResendVerification(e, TRUE) )
         => ( /\ \A t \in 1 .. (nextToken - 2) :
                   /\ verifyEmail(t, FALSE) = Reply(Return(400, MsgInvalidVerificationToken))
                   /\ verifyEmail2(t).status = 400
              /\ verifyEmail(nextToken - 1, FALSE).message = MsgEmailVerified
              /\ verifyEmail(nextToken - 1, FALSE).users[KeyOf(e)].emailVerified )' ]_vars

\* the state after register and one resendVerification: token 1 is refused,
\* token 2 verifies
C28_Witness ==
  \E e \in Emails :
    /\ HasAccount(e) /\ ~users[e].emailVerified
    /\ nextToken = 3 /\ users[e].emailVerificationToken = sha256(2)
    /\ users[e].passwordResetToken = 0
    /\ verifyEmail(1, FALSE).message = MsgInvalidVerificationToken
    /\ verifyEmail(2, FALSE).message = MsgEmailVerified

\* C29: a pending verification token is accepted exactly while the clock is
\* at most its expiry (24 hours after it was generated) and a pending reset
\* token exactly while the clock is at most its expiry (1 hour after it was
\* generated): the instant of the expiry counts the same for both.
C29_ValidityWindows ==
  \A e \in Emails, t \in Plaintexts :
    /\ (HasAccount(e) /\ ~users[e].emailVerified /\ users[e].emailVerificationToken = sha256(t))
         => (verifyEmail(t, FALSE).message = MsgEmailVerified
               <=> now <= users[e].emailVerificationExpire)
    /\ (HasAccount(e) /\ users[e].passwordResetToken = sha256(t))
         => (resetPassword(t, "secret2", "secret2").status = 200
               <=> now <= users[e].passwordResetExpire)

\* C30: verifyEmail with a verification token that was generated for a user
\* who is verified by now answers with success and changes nothing.
C30_VerifiedTokenSucceeds ==
  \A e \in Emails, t \in Plaintexts :
    (HasAccount(e) /\ users[e].emailVerified) =>
      /\ verifyEmail(t, FALSE).status = 200
      /\ verifyEmail(t, FALSE).users = users

\* what C31 says of a password below the minimum length: resetPassword
\* answers 400 "Password must be at least 6 characters long" for every token,
\* writes nothing, and a pending token is still redeemable
TooShortKeepsToken ==
  \A t \in 1 .. MaxTokens + 1 :
    /\ resetPassword(t, "abc", "abc") = Reply(Return(400, MsgPasswordTooShort))
    /\ findByResetToken(sha256(t), now) # ""
         => resetPassword(t, "secret2", "secret2").status = 200

\* C31 as stated: resetPassword with a password shorter than 6 fails with
\* PasswordTooShort and keeps the reset token; after a successful
\* resetPassword, login succeeds with the new password and fails with the
\* password stored before.
C31_LoginAfterReset ==
  /\ []TooShortKeepsToken
  /\ [][\A t \in 1 .. MaxTokens, e \in Emails, old \in Passwords :
          ( /\ consumedReset' # consumedReset
            /\ ResetPassword(t, "secret2", "secret2")
            /\ e = findByResetToken(sha256(t), now)
            /\ old # "secret2" /\ matchPassword(users[e], old) )
            => ( /\ login(e, "secret2", TRUE).status = 200
                 /\ login(e, old, TRUE).status # 200 )' ]_vars

\* C31: resetPassword with a password shorter than 6 fails with
\* PasswordTooShort and keeps the reset token; after a successful
\* resetPassword the new password is the stored one: for a verified user
\* login succeeds with the new password and answers 401 "Invalid credentials"
\* for the password stored before, and for an unverified user login answers
\* 403 for both.
C31_NewPasswordReplacesOld ==
  /\ []TooShortKeepsToken
  /\ [][\A t \in 1 .. MaxTokens, e \in Emails, old \in Passwords :
          ( /\ consumedReset' # consumedReset
            /\ ResetPassword(t, "secret2", "secret2")
            /\ e = findByResetToken(sha256(t), now)
            /\ old # "secret2" /\ matchPassword(users[e], old) )
            => ( /\ matchPassword(users[e], "secret2") /\ ~matchPassword(users[e], old)
                 /\ users[e].emailVerified
                      => /\ login(e, "secret2", TRUE).status = 200
                         /\ login(e, old, TRUE) = Reply(Return(401, MsgInvalidCredentials))
                 /\ ~users[e].emailVerified
                      => /\ login(e, "secret2", TRUE) = Reply(Return(403, MsgVerifyFirst))
                         /\ login(e, old, TRUE) = Reply(Return(403, MsgVerifyFirst)) )' ]_vars

\* a verified user whose password was reset once and who has a reset token
\* pending again: the new password logs in, the old one does not, and a short
\* password is refused for the pending token
C31_Witness ==
  \E e \in Emails, t \in 1 .. MaxTokens :
    /\ users[e].emailVerified
    /\ consumedReset # {}
    /\ matchPassword(users[e], "secret2")
    /\ login(e, "secret2", TRUE).status = 200
    /\ login(e, "secret1", TRUE).status = 401
    /\ findByResetToken(sha256(t), now) = e
    /\ resetPassword(t, "abc", "abc").message = MsgPasswordTooShort

\* C33: the refresh token of every token pair that login or refreshToken
\* issues to a user differs from every refresh token issued before.
C33_RefreshTokensDistinct ==
  /\ \A e \in Emails, p \in Passwords :
       login(e, p, TRUE).status = 200 => login(e, p, TRUE).refreshToken \notin issued
  /\ \A j \in issued :
       refreshToken(j).status = 200 => refreshToken(j).refreshToken \notin issued

\* C35: in the state a forgotPassword whose e-mail was dispatched leaves,
\* resetPassword answers every opaque token generated before with 400
\* "Invalid or expired reset token" and succeeds for the token just
\* generated; so of the tokens of two successive forgotPassword requests for
\* a user the first is refused and the second accepted.
C35_LatestResetTokenOnly ==
  [][\A e \in EmailInputs :
       ( /\ nextToken' = nextToken + 1
         /\ forgotPassword(e, TRUE).token # 0
         /\ ForgotPassword(e, TRUE) )
         => ( /\ \A t \in 1 .. (nextToken - 2) :
                   resetPassword(t, "secret2", "secret2")
                     = Reply(Return(400, MsgInvalidOrExpiredReset))
              /\ resetPassword(nextToken - 1, "secret2", "secret2").status = 200
              /\ resetPassword(nextToken - 1, "secret2", "secret2").users[KeyOf(e)].password
                   = hashPassword("secret2") )' ]_vars

\* the state after register and two dispatched forgotPassword requests for
\* the user: token 2 is refused, token 3 accepted
C35_Witness ==
  \E e \in Emails :
    /\ HasAccount(e)
    /\ nextToken = 4 /\ users[e].passwordResetToken = sha256(3)
    /\ users[e].emailVerificationToken = sha256(1)
    /\ consumedReset = {}
    /\ resetPassword(2, "secret2", "secret2").message = MsgInvalidOrExpiredReset
    /\ resetPassword(3, "secret2", "secret2").status = 200

\* C36: a successful resetPassword changes, on the user its token belongs to
\* and on no other, the password and the two reset fields only; refreshToken,
\* emailVerified, role, loginStreak and lastLoginDate stay as they were, and
\* every refresh token that refreshToken accepted before the reset it accepts
\* after it.
C36_ResetFrame ==
  [][\A t \in 1 .. MaxTokens, e \in Emails :
       ( /\ consumedReset' # consumedReset
         /\ ResetPassword(t, "secret2", "secret2")
         /\ e = findByResetToken(sha256(t), now) )
         => /\ users' = [users EXCEPT ![e].password = hashPassword("secret2"),
                                      ![e].passwordResetToken = 0,
                                      ![e].passwordResetExpire = 0]
            /\ \A j \in issued :
                 refreshToken(j).status = 200 => (refreshToken(j).status = 200)' ]_vars

\* a verified user with a login streak whose password was reset and whose
\* stored refresh token is accepted
C36_Witness ==
  \E e \in Emails :
    /\ users[e].emailVerified /\ users[e].loginStreak >= 1
    /\ consumedReset # {}
    /\ users[e].password = hashPassword("secret2")
    /\ users[e].passwordResetToken = 0
    /\ users[e].refreshToken \in issued
    /\ refreshToken(users[e].refreshToken).status = 200

\* the access tokens issued so far
IssuedAccess == {AccessOf(r) : r \in issued}

\* C37: protect passes every issued access token that has not expired and
\* whose user is stored, whatever refresh token is stored for the user; after
\* a successful logout the access token that was presented, and every other
\* unexpired access token of the user, is still passed.
C37_LogoutKeepsAccessTokens ==
  /\ [](\A a \in IssuedAccess :
          (jwtVerify(a, AccessSecret, now) = "ok" /\ findById(a.id) # "")
            => protectRequest(a, now) = Passed(findById(a.id)))
  /\ [][\A a \in IssuedAccess :
          ( /\ users' # users
            /\ logout(a).status = 200
            /\ Logout(a) )
            => ( /\ users[findById(a.id)].refreshToken = NoToken
                 /\ protectRequest(a, now) = Passed(findById(a.id))
                 /\ \A b \in IssuedAccess :
                      (b.id = a.id /\ jwtVerify(b, AccessSecret, now) = "ok")
                        => protectRequest(b, now).next = 1 )' ]_vars

\* a logged-out user (no refresh token stored) whose access token, issued by
\* the login before, is unexpired and passed by protect
C37_Witness ==
  \E e \in Emails, a \in IssuedAccess :
    /\ HasAccount(e) /\ users[e].lastLoginDate # 0
    /\ users[e].refreshToken = NoToken
    /\ a.id = users[e].id
    /\ jwtVerify(a, AccessSecret, now) = "ok"
    /\ protectRequest(a, now) = Passed(e)

\* C38: verifyEmail requested with Accept: text/html answers with the
\* confirmation page (400 without a token, 200 otherwise) and writes nothing,
\* whatever the token; emailVerified of a stored user becomes true only in
\* the step of a verifyEmail that does not accept HTML and presents the token
\* whose hash is stored for the user, with an expiry that has not passed.
C38_HtmlVerifyChangesNothing ==
  /\ [](\A t \in TokenInputs :
          verifyEmail(t, TRUE)
            = Reply(Return(IF t = 0 THEN 400 ELSE 200, MsgVerificationPage)))
  /\ [][\A e \in Emails :
          ( /\ users'[e].emailVerified # users[e].emailVerified
            /\ HasAccount(e) )
            => /\ users'[e].emailVerified
               /\ \E t \in 1 .. MaxTokens :
                    /\ VerifyEmail(t, FALSE)
                    /\ users[e].emailVerificationToken = sha256(t)
                    /\ users[e].emailVerificationExpire >= now ]_vars

\* an unverified user with a pending token: the HTML request returns the
\* page and leaves the user unverified, the API request verifies
C38_Witness ==
  \E e \in Emails, t \in 1 .. MaxTokens :
    /\ HasAccount(e) /\ ~users[e].emailVerified
    /\ users[e].emailVerificationToken = sha256(t)
    /\ verifyEmail(t, TRUE).status = 200
    /\ ~verifyEmail(t, TRUE).users[e].emailVerified
    /\ verifyEmail(t, FALSE).users[e].emailVerified

\* C39: a login that passes the credential checks and whose badge check
\* throws answers 500, changes no user and returns no token pair; a
\* successful login changes loginStreak, lastLoginDate and refreshToken of
\* its user and nothing else, the stored refresh token being the one
\* returned; every user with lastLoginDate set has loginStreak >= 1.
C39_LoginSavesOnce ==
  /\ [](/\ \A e \in Emails, p \in Passwords :
             /\ login(e, p, FALSE).status # 200
             /\ login(e, p, FALSE).users = users
             /\ login(e, p, FALSE).accessToken = NoToken
             /\ login(e, p, FALSE).refreshToken = NoToken
             /\ login(e, p, TRUE).status = 200
                  => login(e, p, FALSE) = Reply(Return(500, MsgServerError))
        /\ \A e \in Emails : users[e].lastLoginDate # 0 => users[e].loginStreak >= 1)
  /\ [][\A e \in Emails, p \in Passwords :
          ( /\ users' # users
            /\ login(e, p, TRUE).status = 200
            /\ Login(e, p, TRUE) )
            => /\ users' = [users EXCEPT
                              ![e].loginStreak = loginStreak(users[e], now).loginStreak,
                              ![e].lastLoginDate = now,
                              ![e].refreshToken = login(e, p, TRUE).refreshToken]
               /\ login(e, p, TRUE).refreshToken # NoToken
               /\ login(e, p, TRUE).refreshToken.id = users[e].id
               /\ users'[e].loginStreak >= 1 ]_vars

\* a user who has logged in, for whom a further login succeeds and, with a
\* throwing badge check, is answered 500
C39_Witness ==
  \E e \in Emails, p \in Passwords :
    /\ users[e].lastLoginDate # 0 /\ users[e].loginStreak >= 1
    /\ users[e].refreshToken # NoToken
    /\ login(e, p, TRUE).status = 200
    /\ login(e, p, TRUE).users[e].loginStreak = users[e].loginStreak + 1
    /\ login(e, p, FALSE).status = 500
    /\ login(e, p, FALSE).users = users

-----------------------------------------------------------------------------
(* Properties of the lifecycle under SpecConc *)

AllDone == \A s \in Slots : requests[s].pc \in {"idle", "done"}

\* the refresh token issued last to a user: iat grows with the clock
LatestIssued(id) ==
  CHOOSE r \in issued : r.id = id /\ \A q \in issued : q.id = id => q.iat <= r.iat

\* C2: once all requests have completed, the stored refresh token of a user
\* is the refresh token that was issued last to that user.
C2_StoredIsLastIssued ==
  AllDone => \A e \in Emails :
               (HasAccount(e) /\ \E r \in issued : r.id = users[e].id)
                 => users[e].refreshToken = LatestIssued(users[e].id)

\* C3: of the ResetPassword requests that present the same token, at most one
\* succeeds.
C3_ResetOnceUnderConcurrency ==
  \A t \in TokenInputs :
    Cardinality({s \in Slots : /\ requests[s].op = "resetPassword"
                               /\ requests[s].token = t
                               /\ requests[s].status = 200}) <= 1

\* C32: of the RefreshToken requests that present the same refresh token, at
\* most one succeeds and receives a new token pair (a pair whose refresh
\* token is not the presented one again).
C32_RefreshOnceUnderConcurrency ==
  \A j \in issued :
    Cardinality({s \in Slots : /\ requests[s].op = "refreshToken"
                               /\ requests[s].jwt = j
                               /\ requests[s].status = 200
                               /\ requests[s].refreshToken # j}) <= 1

-----------------------------------------------------------------------------
(* Properties of roles and access control under SpecUsers *)

\* the bearer token belongs to a stored user whose role is admin
IsAdmin(accessToken) ==
  /\ protectRequest(accessToken, now).next = 1
  /\ users[protectRequest(accessToken, now).user].role = "admin"

\* register creates users of role "user" only and refuses any other role
RegisterKeepsRoles ==
  \A e \in RegisterEmails, p \in RegisterPasswords, c \in Passwords, r \in RoleInputs \cup {"instructor"},
     m \in BOOLEAN :
    LET out == register(e, p, c, r, m)
    IN /\ out.status = 201 => r \in {"", "user"} /\ out.users[e].role = "user"
       /\ \A x \in Emails : HasAccount(x) => out.users[x] = users[x]
       /\ (e # "" /\ p = c /\ ~HasAccount(e) /\ r \notin {"", "user"})
            => out.status = 403 /\ out.users = users

\* the users router changes nothing for an actor who is no admin
NonAdminKeepsRoles ==
  \A j \in BearerInputs :
    ~IsAdmin(j) =>
      /\ \A i \in IdInputs :
           /\ deleteUser(j, i).users = users
           /\ \A r \in RouterRoleInputs :
                putUser(j, i, r).users = users /\ putUserRole(j, i, r).users = users
      /\ \A e \in RegisterEmails, p \in RegisterPasswords, r \in RouterRoleInputs :
           postUser(j, e, p, r).users = users

\* a step that changes a role or creates a user of a role other than "user"
\* is a request of the users router by an admin
RoleChangeByAdmin ==
  (\E e \in Emails : users'[e].role # users[e].role /\ users'[e].role \notin {"", "user"})
    => \E j \in BearerInputs :
         /\ IsAdmin(j)
         /\ \/ \E i \in IdInputs, r \in RouterRoleInputs : PutUser(j, i, r) \/ PutUserRole(j, i, r)
            \/ \E e \in RegisterEmails, p \in RegisterPasswords, r \in RouterRoleInputs :
                 PostUser(j, e, p, r)

\* C11 as stated: a role other than "user" is set by an authenticated admin
\* only; register refuses roles, a self-update by a non-admin changes no
\* role, and the role of another user is changed by PUT /:id/role only (so
\* PUT /:id never changes the role of a user other than the actor).
C11_RoleOnlyByRoleUpdate ==
  /\ RegisterKeepsRoles
  /\ NonAdminKeepsRoles
  /\ \A j \in BearerInputs, i \in IdInputs, r \in RouterRoleInputs, e \in Emails :
       (HasAccount(e) /\ protectRequest(j, now).user # e)
         => putUser(j, i, r).users[e].role = users[e].role

\* C11 amended: the same, but the role of another user is changed by an
\* admin through PUT /:id/role or through PUT /:id with a role in the body.
C11_RoleOnlyByAdmin ==
  /\ [](RegisterKeepsRoles /\ NonAdminKeepsRoles)
  /\ [][RoleChangeByAdmin]_vars

C11_Witness ==
  \E j \in BearerInputs :
    LET actor == protectRequest(j, now).user
    IN /\ actor # "" /\ users[actor].role = "instructor"
       /\ putUser(j, users[actor].id, "admin").status = 200
       /\ putUser(j, users[actor].id, "admin").users = users

\* the bearer tokens of the requests: BearerInputs and, as tokens signed with
\* another secret, the refresh tokens issued
AnyBearer == BearerInputs \cup issued

\* the token carries the signature of the access secret and has not expired
ValidAccess(j) == j.secret = AccessSecret /\ now \div 1000 < j.iat + 15 * 60

\* C17: protect answers 401 "Not authorized to access this route" when the
\* bearer token is absent or not signed with the access secret, 401 "Token
\* expired..." (another message) when it is expired, 401 "User not found"
\* when its id resolves to no stored user; it calls next() only with
\* req.user an existing user of that id, and never after a response.
C17_ProtectOutcomes ==
  \A j \in AnyBearer :
    LET m == protectRequest(j, now)
        stored == \E e \in Emails : users[e].id # 0 /\ users[e].id = j.id
    IN /\ (j = NoToken \/ j.secret # AccessSecret) => m = Rejected(401, MsgNotAuthorized)
       /\ (j.secret = AccessSecret /\ ~ValidAccess(j)) => m = Rejected(401, MsgTokenExpired)
       /\ MsgTokenExpired # MsgNotAuthorized /\ MsgTokenExpired # MsgUserNotFound
       /\ (ValidAccess(j) /\ ~stored) => m = Rejected(401, MsgUserNotFound)
       /\ (ValidAccess(j) /\ stored)
            => m.next = 1 /\ m.status = 0 /\ HasAccount(m.user) /\ users[m.user].id = j.id
       /\ m.next = 0 \/ (m.next = 1 /\ m.status = 0)

\* the token of a user who has been deleted, and an expired token
C17_Witness ==
  \E j \in BearerInputs, k \in BearerInputs :
    /\ protectRequest(j, now) = Rejected(401, MsgUserNotFound)
    /\ protectRequest(k, now) = Rejected(401, MsgTokenExpired)

\* the identities a request may carry into authorize: a stored user or none
Identities == {e \in Emails : HasAccount(e)} \cup {""}

\* the role lists of the routes
RoleLists == {<<"admin">>, <<"admin", "instructor">>}

\* C18: authorize(roles) calls next() exactly when req.user is set and its
\* role is one of roles; a user of another role gets 403, a request without
\* req.user gets 401.
C18_AuthorizeIffRoleAllowed ==
  \A roles \in RoleLists, u \in Identities :
    LET m == authorize(roles, u)
        allowed == {roles[i] : i \in 1 .. Len(roles)}
    IN /\ m.next = 1 <=> (u # "" /\ users[u].role \in allowed)
       /\ m.next = 1 => m.status = 0 /\ m.user = u
       /\ u = "" => m = Rejected(401, MsgNotAuthorized)
       /\ (u # "" /\ users[u].role \notin allowed) => m.status = 403 /\ m.next = 0
       /\ (u # "" /\ users[u].role = "instructor" /\ roles = <<"admin">>)
            => m.message = "User role 'instructor' is not authorized to access this route. Required roles: admin"

C18_Witness ==
  \E e \in Emails :
    /\ HasAccount(e) /\ users[e].role = "instructor"
    /\ authorize(<<"admin">>, e).status = 403
    /\ authorize(<<"admin", "instructor">>, e).next = 1

\* C19: optionalAuth sends no response and calls next() once for every
\* request; req.user is set exactly when the token is a valid access token
\* of a stored user, to that user.
C19_OptionalAuthNeverFails ==
  \A j \in AnyBearer :
    LET m == optionalAuth(j, now)
    IN /\ m.status = 0 /\ m.next = 1
       /\ m.user # "" => ValidAccess(j) /\ HasAccount(m.user) /\ users[m.user].id = j.id
       /\ (ValidAccess(j) /\ \E e \in Emails : users[e].id # 0 /\ users[e].id = j.id)
            => m.user # ""

\* a valid token of a deleted user, an expired token and a token of a stored
\* user
C19_Witness ==
  \E j \in BearerInputs, k \in BearerInputs, l \in BearerInputs :
    /\ ValidAccess(j) /\ findById(j.id) = "" /\ optionalAuth(j, now).user = ""
    /\ k.secret = AccessSecret /\ ~ValidAccess(k) /\ optionalAuth(k, now).user = ""
    /\ optionalAuth(l, now).user # ""

-----------------------------------------------------------------------------
(* Properties of sign-up under SpecConcSignup *)

\* the ids of the user records that exist for an e-mail: the stored document
\* and every document a register request created
RecordsOf(e) ==
  ({users[e].id}
     \cup {requests[s].changed.id :
             s \in {x \in Slots : requests[x].op = "register" /\ requests[x].email = e}})
  \ {0}

C15_VerifiedHasNoToken ==
  \A e \in Emails :
    users[e].emailVerified
      => users[e].emailVerificationToken = 0 /\ users[e].emailVerificationExpire = 0

-----------------------------------------------------------------------------
(* Properties of the second controller under SpecSecond *)

\* C22: a register (of either controller) whose verification e-mail fails to
\* be dispatched answers 201 and leaves the created user with its pending
\* verification hash.
C22_RegisterDispatchSwallowed ==
  \A e \in Emails, p \in RegisterPasswords :
    ~HasAccount(e) =>
      /\ register(e, p, p, "", FALSE).status = 201
      /\ register(e, p, p, "", FALSE).users[e].emailVerificationToken = sha256(nextToken)
      /\ register2(e, p, p, FALSE).status = 201
      /\ register2(e, p, p, FALSE).users[e].emailVerificationToken = sha256(nextToken)

-----------------------------------------------------------------------------
(* Properties of forgotPassword under SpecConcForgot *)

\* C34: while no reset token has been used, the reset token of a
\* forgotPassword request that has answered 200 after a successful dispatch
\* is redeemable unless it has expired or a forgotPassword that generated its
\* token later has replaced it.
C34_DispatchedTokenRedeemable ==
  \A s \in Slots :
    LET r == requests[s]
    IN ( /\ r.op = "forgotPassword" /\ r.pc = "done" /\ r.status = 200 /\ r.token # 0
         /\ consumedReset = {}
         /\ r.loaded.passwordResetExpire > now
         /\ \A x \in Slots : requests[x].token <= r.token )
         => resetPassword(r.token, "secret2", "secret2").status = 200

-----------------------------------------------------------------------------
(* Properties of course progress under SpecProgress *)

\* C40: updateProgress(c, t) on the stored document sets progress to
\* round(100 * c / t) when t > 0 and to 0 otherwise, a value within 0 .. 100,
\* sets completedLessons to the indices 0 .. c - 1, sets completedAt when
\* progress is 100 and completedAt was not set, and leaves a set completedAt
\* as it is.
C40_UpdateProgressClamped ==
  \A c \in 0 .. MaxLessons, t \in 0 .. MaxLessons :
    LET this == courseProgress.stored
        updated == updateProgress(this, c, t, now)
    IN /\ updated.progress = IF t > 0 THEN round(100 * c, t) ELSE 0
       /\ updated.progress \in 0 .. 100
       /\ updated.completedLessons = [i \in 1 .. c |-> i - 1]
       /\ (updated.progress = 100 /\ this.completedAt = 0) => updated.completedAt = now
       /\ this.completedAt # 0 => updated.completedAt = this.completedAt

=============================================================================
